---- MODULE Spec2Model ----
(***************************************************************************)
(* Model of the Drive adapter's folder algorithms (src/drive/index.js):    *)
(*   - list_folder_recursive  (traverseFolder)                             *)
(*   - get_folder_tree        (buildTree)                                  *)
(*   - get_folder_id_for_path                                              *)
(* run against a model of the Drive backend (drive.files.list / create /   *)
(* get).  The backend holds the entries in `files`; an entry's id is its   *)
(* index in `files`, and id 0 is the alias 'root'.                         *)
(* And of the Sheets adapter's row scans (src/sheets/index.js):            *)
(*   - sheets_find_row                                                     *)
(*   - sheets_upsert_row                                                   *)
(* run against a model of spreadsheets.values.get / update / append over   *)
(* one sheet, whose cells are held in `sheet`.                             *)
(***************************************************************************)
EXTENDS Integers, Sequences, FiniteSets, TLC

VARIABLES
    files,        \* backend: sequence of entries [name, mimeType, parents, trashed]
    calls,        \* backend: every request received so far, in order
    pending,      \* backend: the requests in flight (issued, not yet answered)
    log,          \* console.error output, in order
    lr_state,     \* list_folder_recursive: "idle" | "running" | "done"
    lr_args,      \* list_folder_recursive: the tool arguments
    lr_stack,     \* list_folder_recursive: activation records of traverseFolder
    allItems,     \* list_folder_recursive: const allItems = []
    visited,      \* list_folder_recursive: const visited = new Set()
    lr_result,    \* list_folder_recursive: <<>>, or <<r>> once the tool call returned r
    gt_state,     \* get_folder_tree: "idle" | "get" | "running" | "done"
    gt_args,      \* get_folder_tree: the tool arguments
    gt_stack,     \* get_folder_tree: activation records of buildTree
    rootName,     \* get_folder_tree: let rootName
    gt_result,    \* get_folder_tree: <<>>, or <<r>> once the tool call returned / threw r
    rp_state,     \* get_folder_id_for_path: "idle" | "loop" | "list" | "create" | "done"
    rp_args,      \* get_folder_id_for_path: the tool arguments
    folders,      \* get_folder_id_for_path: const folders
    rp_i,         \* get_folder_id_for_path: position of the for loop in folders
    currentParentId,  \* get_folder_id_for_path: let currentParentId
    responses,    \* get_folder_id_for_path: the tool calls completed so far, in order
    sheet,        \* Sheets backend: the rows of the sheet, each a sequence of cells
    sh_state,     \* sheets tools: "idle" | "get" | "write" | "done"
    sh_args,      \* sheets tools: the tool called and its arguments
    rowIndex,     \* sheets_upsert_row: let rowIndex
    sh_result,    \* sheets tools: <<>>, or <<r>> once the tool call returned / threw r
    inv,          \* concurrent get_folder_id_for_path: the state of each invocation
    bd_state,     \* batch_download: "idle" | "loop" | "meta" | "content" | "done"
    bd_args,      \* batch_download: the tool arguments
    bd_i,         \* batch_download: position of the for loop in fileIds
    metaResponse, \* batch_download: const metaResponse (.data), <<>> before the get
    results,      \* batch_download: const results = []
    errors,       \* batch_download: const errors = []
    bd_result     \* batch_download: <<>>, or <<r>> once the tool call returned r

vars == <<files, calls, pending, log,
          lr_state, lr_args, lr_stack, allItems, visited, lr_result,
          gt_state, gt_args, gt_stack, rootName, gt_result,
          rp_state, rp_args, folders, rp_i, currentParentId, responses,
          sheet, sh_state, sh_args, rowIndex, sh_result,
          inv, bd_state, bd_args, bd_i, metaResponse, results, errors, bd_result>>

backendVars == <<files, calls, pending>>
lrVars      == <<lr_state, lr_args, lr_stack, allItems, visited, lr_result>>
gtVars      == <<gt_state, gt_args, gt_stack, rootName, gt_result>>
rpVars      == <<rp_state, rp_args, folders, rp_i, currentParentId, responses>>
shVars      == <<sheet, sh_state, sh_args, rowIndex, sh_result>>
crVars      == <<inv>>
bdVars      == <<bd_state, bd_args, bd_i, metaResponse, results, errors, bd_result>>

-----------------------------------------------------------------------------
(* Bounds of the model *)

NumEntries    == 3    \* entries in the backend of a traversal
MaxParents    == 2    \* parents per entry
CycleEntries  == 2    \* entries in the backend of a run checked for termination
MaxDepthBound == 2    \* maxDepth arguments tried: 0..MaxDepthBound, and DeepDepth
MaxTreeDepth  == 3    \* maxDepth arguments tried for the tree: 0..MaxTreeDepth
MaxPathLen    == 3    \* characters in a path argument
MaxFolders    == 1    \* entries in the backend before a path is resolved
MaxCalls      == 2    \* path resolutions issued one after the other
MaxRows       == 3    \* rows of the sheet before a sheets tool is called
MaxFileIds    == 3    \* file ids given to one batch download

\* a maxDepth no traversal of NumEntries entries can reach
DeepDepth == NumEntries + 2

-----------------------------------------------------------------------------
(* Backend: entries and the files.list query language *)

FOLDER == "application/vnd.google-apps.folder"
TEXT   == "text/plain"
root   == 0

\* names given to the entries of a traversal backend, by id
EntryNames == <<"A", "x.txt", "B", "y.png", "z.txt">>

Ids(fs) == 1..Len(fs)

IsFolder(fs, id) == id = root \/ (id \in Ids(fs) /\ fs[id].mimeType = FOLDER)

\* one clause of a q string
InParents(id)  == [k |-> "in parents", v |-> id]
TrashedFalse   == [k |-> "trashed =", v |-> FALSE]
MimeEq(m)      == [k |-> "mimeType =", v |-> m]
MimeNe(m)      == [k |-> "mimeType !=", v |-> m]
NameEq(n)      == [k |-> "name =", v |-> n]

Matches(f, c) ==
    CASE c.k = "in parents"  -> c.v \in f.parents
      [] c.k = "trashed ="   -> f.trashed = c.v
      [] c.k = "mimeType ="  -> f.mimeType = c.v
      [] c.k = "mimeType !=" -> f.mimeType # c.v
      [] c.k = "name ="      -> f.name = c.v

\* q.join(' and ')
MatchesAll(f, q) == \A j \in 1..Len(q) : Matches(f, q[j])

\* the file resource returned for an entry
FileOf(fs, id) == [id |-> id, name |-> fs[id].name, mimeType |-> fs[id].mimeType]

RECURSIVE SelectFrom(_, _, _)
SelectFrom(fs, q, id) ==
    IF id > Len(fs) THEN <<>>
    ELSE (IF MatchesAll(fs[id], q) THEN <<FileOf(fs, id)>> ELSE <<>>)
         \o SelectFrom(fs, q, id + 1)

Take(s, n) == IF Len(s) <= n THEN s ELSE SubSeq(s, 1, n)

\* the backend's collation of names, for orderBy: 'name'
SortedNames == <<"A", "B", "x.txt", "y.png", "z.txt">>

NameRank(n) == CHOOSE r \in 1..Len(SortedNames) : SortedNames[r] = n

\* stable insertion of a file into a list sorted by name
RECURSIVE InsertByName(_, _)
InsertByName(f, s) ==
    IF s = <<>> THEN <<f>>
    ELSE IF NameRank(f.name) < NameRank(Head(s).name) THEN <<f>> \o s
    ELSE <<Head(s)>> \o InsertByName(f, Tail(s))

RECURSIVE SortByName(_)
SortByName(s) ==
    IF s = <<>> THEN <<>>
    ELSE InsertByName(s[Len(s)], SortByName(SubSeq(s, 1, Len(s) - 1)))

\* orderBy when the request does not set it: the backend's default order
NoOrder == ""

\* drive.files.list({q, pageSize, orderBy}): the first page only
ListFiles(fs, q, pageSize, orderBy) ==
    Take(IF orderBy = "name" THEN SortByName(SelectFrom(fs, q, 1))
                             ELSE SelectFrom(fs, q, 1),
         pageSize)

ListRequest(q, pageSize, orderBy) ==
    [op |-> "list", q |-> q, pageSize |-> pageSize, orderBy |-> orderBy]

\* the backend's answer to a list request
ListResponse(fs, req) == ListFiles(fs, req.q, req.pageSize, req.orderBy)

-----------------------------------------------------------------------------
(* The graph of the backend's entries *)

Children(fs, p) == {i \in Ids(fs) : p \in fs[i].parents /\ ~fs[i].trashed}

\* the entries d levels below the children of start (the children are level 0)
RECURSIVE Level(_, _, _)
Level(fs, start, d) ==
    IF d = 0 THEN Children(fs, start)
    ELSE UNION {Children(fs, p) : p \in {x \in Level(fs, start, d - 1) : IsFolder(fs, x)}}

Descendants(fs, id) == UNION {Level(fs, id, d) : d \in 0..Len(fs)}

\* some container is reachable from itself
Cyclic(fs) == \E c \in Ids(fs) : c \in Descendants(fs, c)

-----------------------------------------------------------------------------
(* Backends a traversal is run against *)

PNG == "image/png"

\* the mimeType of the entries of a traversal backend, by id
EntryMimes == <<FOLDER, TEXT, FOLDER, PNG, TEXT>>

\* the folders an entry of a backend of n entries can be listed under
FolderIds(n) == {root} \cup {i \in 1..n : EntryMimes[i] = FOLDER}

ParentSets(n) == {P \in SUBSET FolderIds(n) : Cardinality(P) \in 1..MaxParents}

\* the entries A, x.txt, B, ... each under one or more folders; cycles and
\* shared children are allowed
TraversalBackends(n) ==
    {[i \in 1..n |-> [name |-> EntryNames[i], mimeType |-> EntryMimes[i],
                      parents |-> ps[i], trashed |-> FALSE]] :
        ps \in [1..n -> ParentSets(n)]}

-----------------------------------------------------------------------------
(* The state before any tool call *)

\* the mimeType argument when it is not given (falsy)
NoMime == ""

\* the zod defaults of get_folder_id_for_path's arguments; a path is the
\* sequence of its characters
RP_Defaults == [path |-> <<>>, createIfNotExists |-> FALSE]

\* the zod defaults of get_folder_tree's arguments
GT_Defaults == [folderId |-> root, maxDepth |-> 3, includeFiles |-> FALSE]

\* the zod defaults of the tool's arguments
LR_Defaults ==
    [folderId |-> root, maxDepth |-> 5, includeFiles |-> TRUE,
     includeFolders |-> TRUE, mimeType |-> NoMime]

NoRequests ==
    /\ calls = <<>>
    /\ pending = <<>>
    /\ log = <<>>

LR_Idle ==
    /\ lr_state = "idle"
    /\ lr_args = LR_Defaults
    /\ lr_stack = <<>>
    /\ allItems = <<>>
    /\ visited = {}
    /\ lr_result = <<>>

GT_Idle ==
    /\ gt_state = "idle"
    /\ gt_args = GT_Defaults
    /\ gt_stack = <<>>
    /\ rootName = "My Drive"
    /\ gt_result = <<>>

\* no concurrent invocations of get_folder_id_for_path
CR_Idle == inv = <<>>

\* the zod defaults of batch_download's arguments
BD_Defaults == [fileIds |-> <<>>, format |-> "text", exportFormat |-> ""]

BD_Idle ==
    /\ bd_state = "idle"
    /\ bd_args = BD_Defaults
    /\ bd_i = 1
    /\ metaResponse = <<>>
    /\ results = <<>>
    /\ errors = <<>>
    /\ bd_result = <<>>

\* no sheets tool has been called; the sheet is empty
SH_Idle ==
    /\ sheet = <<>>
    /\ sh_state = "idle"
    /\ sh_args = [tool |-> ""]
    /\ rowIndex = -1
    /\ sh_result = <<>>

RP_Idle ==
    /\ rp_state = "idle"
    /\ rp_args = RP_Defaults
    /\ folders = <<>>
    /\ rp_i = 1
    /\ currentParentId = root
    /\ responses = <<>>

-----------------------------------------------------------------------------
(* list_folder_recursive *)

LR_PAGE_SIZE == 100


LR_Args ==
    [folderId : 0..NumEntries,
     maxDepth : (0..MaxDepthBound) \cup {DeepDepth},
     includeFiles : BOOLEAN,
     includeFolders : BOOLEAN,
     mimeType : {NoMime, TEXT, PNG}]


\* variant of the query: the MIME filter is applied whatever includeFiles is
LR_Query_MimeAlways(parentId, a) ==
    <<InParents(parentId), TrashedFalse>>
    \o (IF ~a.includeFiles THEN <<MimeEq(FOLDER)>> ELSE <<>>)
    \o (IF ~a.includeFolders /\ a.includeFiles THEN <<MimeNe(FOLDER)>> ELSE <<>>)
    \o (IF a.mimeType # NoMime THEN <<MimeEq(a.mimeType)>> ELSE <<>>)

\* variant of the query: folders are not excluded when includeFolders is false
LR_Query_KeepFolders(parentId, a) ==
    <<InParents(parentId), TrashedFalse>>
    \o (IF ~a.includeFiles THEN <<MimeEq(FOLDER)>> ELSE <<>>)
    \o (IF a.mimeType # NoMime /\ a.includeFiles THEN <<MimeEq(a.mimeType)>> ELSE <<>>)

\* const q = [...]; if (!includeFiles) ...; if (!includeFolders && includeFiles) ...
LR_Query(parentId, a) ==
    <<InParents(parentId), TrashedFalse>>
    \o (IF ~a.includeFiles THEN <<MimeEq(FOLDER)>> ELSE <<>>)
    \o (IF ~a.includeFolders /\ a.includeFiles THEN <<MimeNe(FOLDER)>> ELSE <<>>)
    \o (IF a.mimeType # NoMime /\ a.includeFiles THEN <<MimeEq(a.mimeType)>> ELSE <<>>)

\* variants of the guard: without the visited set; with the bound off by one
LR_Stop_NoVisited(parentId, depth, maxDepth, seen) ==
    depth >= maxDepth

LR_Stop_OffByOne(parentId, depth, maxDepth, seen) ==
    depth > maxDepth \/ parentId \in seen

\* if (depth >= maxDepth || visited.has(parentId)) return;
LR_Stop(parentId, depth, maxDepth, seen) ==
    depth >= maxDepth \/ parentId \in seen

\* variant of the path: the name alone
LR_ItemPath_NameOnly(path, name) == name

\* path ? `${path}/${file.name}` : file.name
LR_ItemPath(path, name) == IF path # "" THEN path \o "/" \o name ELSE name

\* variant of the entry: the depth is counted from 1
LR_Item_DepthFromOne(file, path, depth) ==
    [id |-> file.id, name |-> file.name, mimeType |-> file.mimeType,
     path |-> LR_ItemPath(path, file.name), depth |-> depth + 1]

\* const item = { ...file, path, depth }
LR_Item(file, path, depth) ==
    [id |-> file.id, name |-> file.name, mimeType |-> file.mimeType,
     path |-> LR_ItemPath(path, file.name), depth |-> depth]

\* an activation of traverseFolder(parentId, depth = 0, path = '')
LR_Frame(parentId, depth, path) ==
    [parentId |-> parentId, depth |-> depth, path |-> path,
     pc |-> "entry", resp |-> <<>>, i |-> 1]

Top(st) == st[Len(st)]
Pop(st) == SubSeq(st, 1, Len(st) - 1)
SetTop(st, f) == [st EXCEPT ![Len(st)] = f]

\* the tool is invoked: allItems = [], visited = new Set(), traverseFolder(folderId)
LR_Start ==
    /\ lr_state = "idle"
    /\ \E a \in LR_Args :
        /\ IsFolder(files, a.folderId)
        /\ lr_args' = a
        /\ lr_stack' = <<LR_Frame(a.folderId, 0, "")>>
    /\ lr_state' = "running"
    /\ allItems' = <<>>
    /\ visited' = {}
    /\ UNCHANGED <<gtVars, rpVars, shVars, crVars, bdVars, backendVars, log, lr_result>>

\* traverseFolder returns at once: depth bound reached or folder already visited
LR_Skip ==
    /\ lr_state = "running" /\ lr_stack # <<>>
    /\ Top(lr_stack).pc = "entry"
    /\ LR_Stop(Top(lr_stack).parentId, Top(lr_stack).depth, lr_args.maxDepth, visited)
    /\ lr_stack' = Pop(lr_stack)
    /\ UNCHANGED <<gtVars, rpVars, shVars, crVars, bdVars, backendVars, log, lr_state, lr_args, allItems, visited, lr_result>>

\* visited.add(parentId); await drive.files.list({q, fields, pageSize: 100})
LR_Expand ==
    /\ lr_state = "running" /\ lr_stack # <<>>
    /\ Top(lr_stack).pc = "entry"
    /\ ~LR_Stop(Top(lr_stack).parentId, Top(lr_stack).depth, lr_args.maxDepth, visited)
    /\ visited' = visited \cup {Top(lr_stack).parentId}
    /\ LET req == ListRequest(LR_Query(Top(lr_stack).parentId, lr_args),
                                  LR_PAGE_SIZE, NoOrder)
       IN /\ calls' = Append(calls, req)
          /\ pending' = Append(pending, req)
    /\ lr_stack' = SetTop(lr_stack, [Top(lr_stack) EXCEPT !.pc = "await"])
    /\ UNCHANGED <<gtVars, rpVars, shVars, crVars, bdVars, files, log, lr_state, lr_args, allItems, lr_result>>

\* the list call resolves: response.data.files
LR_ListOk ==
    /\ lr_state = "running" /\ lr_stack # <<>>
    /\ Top(lr_stack).pc = "await" /\ pending # <<>>
    /\ lr_stack' = SetTop(lr_stack,
            [Top(lr_stack) EXCEPT !.pc = "loop", !.i = 1,
                                  !.resp = ListResponse(files, pending[1])])
    /\ pending' = Tail(pending)
    /\ UNCHANGED <<gtVars, rpVars, shVars, crVars, bdVars, files, calls, log, lr_state, lr_args, allItems, visited, lr_result>>

\* variant of the failure path: the folder is taken out of visited again
LR_ListFail_Forget ==
    /\ lr_state = "running" /\ lr_stack # <<>>
    /\ Top(lr_stack).pc = "await" /\ pending # <<>>
    /\ log' = Append(log, [msg |-> "Error traversing folder", id |-> Top(lr_stack).parentId])
    /\ lr_stack' = Pop(lr_stack)
    /\ pending' = Tail(pending)
    /\ visited' = visited \ {Top(lr_stack).parentId}
    /\ UNCHANGED <<gtVars, rpVars, shVars, crVars, bdVars, files, calls, lr_state, lr_args, allItems, lr_result>>

\* variant of the failure path: the error is not caught and ends the tool call
LR_ListFail_Abort ==
    /\ lr_state = "running" /\ lr_stack # <<>>
    /\ Top(lr_stack).pc = "await" /\ pending # <<>>
    /\ log' = Append(log, [msg |-> "Drive operation failed", id |-> Top(lr_stack).parentId])
    /\ lr_stack' = <<>>
    /\ pending' = Tail(pending)
    /\ lr_state' = "done"
    /\ lr_result' = <<[ok |-> FALSE, items |-> <<>>, count |-> 0,
                       folderId |-> lr_args.folderId, maxDepth |-> lr_args.maxDepth]>>
    /\ UNCHANGED <<gtVars, rpVars, shVars, crVars, bdVars, files, calls, lr_args, allItems, visited>>

\* the list call rejects: catch (error) { console.error(...) }, traverseFolder returns
LR_ListFail ==
    /\ lr_state = "running" /\ lr_stack # <<>>
    /\ Top(lr_stack).pc = "await" /\ pending # <<>>
    /\ log' = Append(log, [msg |-> "Error traversing folder", id |-> Top(lr_stack).parentId])
    /\ lr_stack' = Pop(lr_stack)
    /\ pending' = Tail(pending)
    /\ UNCHANGED <<gtVars, rpVars, shVars, crVars, bdVars, files, calls, lr_state, lr_args, allItems, visited, lr_result>>

\* variant of the loop: the listing of a folder is requested without waiting
\* for it, and the loop goes on
LR_Loop_FanOut ==
    /\ lr_state = "running" /\ lr_stack # <<>>
    /\ Top(lr_stack).pc = "loop"
    /\ Top(lr_stack).i <= Len(Top(lr_stack).resp)
    /\ LET t == Top(lr_stack)
           file == t.resp[t.i]
           item == LR_Item(file, t.path, t.depth)
           req == ListRequest(LR_Query(file.id, lr_args), LR_PAGE_SIZE, NoOrder)
       IN /\ allItems' = Append(allItems, item)
          /\ lr_stack' = SetTop(lr_stack, [t EXCEPT !.i = t.i + 1])
          /\ calls' = IF file.mimeType = FOLDER THEN Append(calls, req) ELSE calls
          /\ pending' = IF file.mimeType = FOLDER THEN Append(pending, req) ELSE pending
    /\ UNCHANGED <<gtVars, rpVars, shVars, crVars, bdVars, files, log, lr_state, lr_args, visited, lr_result>>

\* variant of the loop: the entry is put in front of the output
LR_Loop_Unshift ==
    /\ lr_state = "running" /\ lr_stack # <<>>
    /\ Top(lr_stack).pc = "loop"
    /\ Top(lr_stack).i <= Len(Top(lr_stack).resp)
    /\ LET t == Top(lr_stack)
           file == t.resp[t.i]
           item == LR_Item(file, t.path, t.depth)
           next == [t EXCEPT !.i = t.i + 1]
       IN /\ allItems' = <<item>> \o allItems
          /\ lr_stack' = IF file.mimeType = FOLDER
                         THEN Append(SetTop(lr_stack, next),
                                     LR_Frame(file.id, t.depth + 1, item.path))
                         ELSE SetTop(lr_stack, next)
    /\ UNCHANGED <<gtVars, rpVars, shVars, crVars, bdVars, backendVars, log, lr_state, lr_args, visited, lr_result>>

\* one iteration of for (const file of response.data.files || [])
LR_Loop ==
    /\ lr_state = "running" /\ lr_stack # <<>>
    /\ Top(lr_stack).pc = "loop"
    /\ Top(lr_stack).i <= Len(Top(lr_stack).resp)
    /\ LET t == Top(lr_stack)
           file == t.resp[t.i]
           item == LR_Item(file, t.path, t.depth)
           next == [t EXCEPT !.i = t.i + 1]
       IN /\ allItems' = Append(allItems, item)
          /\ lr_stack' = IF file.mimeType = FOLDER
                         THEN Append(SetTop(lr_stack, next),
                                     LR_Frame(file.id, t.depth + 1, item.path))
                         ELSE SetTop(lr_stack, next)
    /\ UNCHANGED <<gtVars, rpVars, shVars, crVars, bdVars, backendVars, log, lr_state, lr_args, visited, lr_result>>

\* the for loop is exhausted: traverseFolder returns
LR_LoopEnd ==
    /\ lr_state = "running" /\ lr_stack # <<>>
    /\ Top(lr_stack).pc = "loop"
    /\ Top(lr_stack).i > Len(Top(lr_stack).resp)
    /\ lr_stack' = Pop(lr_stack)
    /\ UNCHANGED <<gtVars, rpVars, shVars, crVars, bdVars, backendVars, log, lr_state, lr_args, allItems, visited, lr_result>>

\* return formatResponse({items: allItems, count: allItems.length, folderId, maxDepth})
LR_Return ==
    /\ lr_state = "running" /\ lr_stack = <<>>
    /\ lr_result' = <<[ok |-> TRUE, items |-> allItems, count |-> Len(allItems),
                       folderId |-> lr_args.folderId, maxDepth |-> lr_args.maxDepth]>>
    /\ lr_state' = "done"
    /\ UNCHANGED <<gtVars, rpVars, shVars, crVars, bdVars, backendVars, log, lr_args, lr_stack, allItems, visited>>

LR_Step ==
    \/ LR_Skip
    \/ LR_Expand
    \/ LR_ListOk
    \/ LR_ListFail
    \/ LR_Loop
    \/ LR_LoopEnd
    \/ LR_Return

LR_Init ==
    /\ files \in TraversalBackends(NumEntries)
    /\ NoRequests
    /\ LR_Idle
    /\ GT_Idle
    /\ RP_Idle
    /\ CR_Idle
    /\ BD_Idle
    /\ SH_Idle

LR_Next ==
    \/ LR_Start
    \/ LR_Step

SpecList == LR_Init /\ [][LR_Next]_vars

\* runs over the smaller backends that contain a cycle
LR_InitCyclic ==
    /\ files \in {fs \in TraversalBackends(CycleEntries) : Cyclic(fs)}
    /\ NoRequests
    /\ LR_Idle
    /\ GT_Idle
    /\ RP_Idle
    /\ CR_Idle
    /\ BD_Idle
    /\ SH_Idle

\* the event loop runs every continuation and the backend answers every request
FairSpecList == LR_InitCyclic /\ [][LR_Next]_vars /\ WF_vars(LR_Step)

-----------------------------------------------------------------------------
(* Vocabulary of the properties of list_folder_recursive *)

\* how many list requests asked for the children of id
ListCount(id) ==
    Cardinality({k \in 1..Len(calls) : calls[k].op = "list" /\ calls[k].q[1] = InParents(id)})

ItemIds == {allItems[k].id : k \in 1..Len(allItems)}

FailedIds == {log[k].id : k \in 1..Len(log)}

\* root -> folder A -> {file x.txt, empty folder B}
Fixture ==
    <<[name |-> "A", mimeType |-> FOLDER, parents |-> {root}, trashed |-> FALSE],
      [name |-> "x.txt", mimeType |-> TEXT, parents |-> {1}, trashed |-> FALSE],
      [name |-> "B", mimeType |-> FOLDER, parents |-> {1}, trashed |-> FALSE]>>

PathsAndDepths(items) == [k \in 1..Len(items) |-> <<items[k].path, items[k].depth>>]

-----------------------------------------------------------------------------
(* C3: on a backend graph with a cycle, for any maxDepth, listRecursive
   terminates and lists the children of each container id at most once. *)
C3_TerminatesExpandsOnce ==
    /\ (Cyclic(files) /\ lr_state = "running") ~> (lr_state = "done")
    /\ [](Cyclic(files) => \A id \in 0..Len(files) : ListCount(id) <= 1)

\* a run over a cycle ended: a container met again below itself was listed once,
\* with a depth bound too large to have stopped the walk
C3_Witness ==
    /\ lr_state = "done"
    /\ lr_args.maxDepth = DeepDepth
    /\ \E k \in 1..Len(allItems) :
          /\ allItems[k].mimeType = FOLDER
          /\ allItems[k].id \in Descendants(files, allItems[k].id)
          /\ allItems[k].depth > 0
          /\ \E j \in 1..(k - 1) : allItems[j].id = allItems[k].id
          /\ ListCount(allItems[k].id) = 1

\* every entry has one parent and no container is below itself
IsTree(fs) == ~Cyclic(fs) /\ \A i \in Ids(fs) : Cardinality(fs[i].parents) = 1

LR_Done == lr_state = "done"

-----------------------------------------------------------------------------
(* C4: with includeFolders=false and includeFiles=true containers are left
   out of the output but still expanded: every leaf inside a sub-container of
   the root, within the depth bound, appears in the output. *)
C4_FoldersStillExpanded ==
    (/\ LR_Done
     /\ ~lr_args.includeFolders /\ lr_args.includeFiles /\ lr_args.mimeType = NoMime
     /\ log = <<>> /\ IsTree(files))
    => \A d \in 1..(lr_args.maxDepth - 1) :
         \A l \in Level(files, lr_args.folderId, d) :
            ~IsFolder(files, l) => l \in ItemIds

-----------------------------------------------------------------------------
(* C5: with includeFolders=false and includeFiles=true the output of
   listRecursive contains no container entry, whatever the backend graph and
   maxDepth. *)
C5_NoContainersEmitted ==
    (lr_state # "idle" /\ ~lr_args.includeFolders /\ lr_args.includeFiles)
    => /\ \A k \in 1..Len(allItems) : allItems[k].mimeType # FOLDER
       /\ lr_result # <<>> =>
            \A k \in 1..Len(lr_result[1].items) : lr_result[1].items[k].mimeType # FOLDER

\* such a call returned entries from a folder that also holds a container
C5_Witness ==
    /\ LR_Done
    /\ ~lr_args.includeFolders /\ lr_args.includeFiles
    /\ lr_result[1].items # <<>>
    /\ \E c \in Children(files, lr_args.folderId) : IsFolder(files, c)

-----------------------------------------------------------------------------
(* C6: a MIME-type filter (with includeFiles=true) restricts only leaves:
   containers are never filtered out by it, so every leaf of the requested
   type inside any sub-container within the depth bound appears in the
   output. *)
C6_MimeFilterLeavesOnly ==
    (/\ LR_Done
     /\ lr_args.includeFolders /\ lr_args.includeFiles /\ lr_args.mimeType = TEXT
     /\ log = <<>> /\ IsTree(files))
    => \A d \in 0..(lr_args.maxDepth - 1) :
         \A l \in Level(files, lr_args.folderId, d) :
            files[l].mimeType = TEXT => l \in ItemIds

-----------------------------------------------------------------------------
(* C7 *)

FixtureArgs(m) ==
    [folderId |-> root, maxDepth |-> m, includeFiles |-> TRUE,
     includeFolders |-> TRUE, mimeType |-> NoMime]

FixtureRun(m) ==
    LR_Done /\ files = Fixture /\ lr_args = FixtureArgs(m) /\ log = <<>>

\* C7 as stated: with maxDepth=1 the fixture yields A at depth 0 and A/x.txt,
\* A/B at the boundary depth 1.
C7_Original ==
    FixtureRun(1) =>
        PathsAndDepths(lr_result[1].items)
            = << <<"A", 0>>, <<"A/x.txt", 1>>, <<"A/B", 1>> >>

\* C7 (amended): listRecursive with maxDepth=m emits entries only at depths
\* 0..m-1 and lists containers only at those depths: for m >= 1 the root's
\* direct children are emitted at depth 0, and a container at depth m-1 is
\* emitted but not expanded; on the fixture maxDepth=1 yields exactly
\* [A at depth 0] and maxDepth=2 yields [A at 0, A/x.txt at 1, A/B at 1].
C7_DepthBelowMax ==
    /\ \A k \in 1..Len(allItems) : allItems[k].depth \in 0..(lr_args.maxDepth - 1)
    /\ \A j \in 1..Len(lr_stack) :
          lr_stack[j].pc # "entry" => lr_stack[j].depth < lr_args.maxDepth
    /\ (/\ LR_Done /\ log = <<>> /\ lr_args.maxDepth >= 1
        /\ lr_args.includeFiles /\ lr_args.includeFolders /\ lr_args.mimeType = NoMime)
       => {allItems[k].id : k \in {j \in 1..Len(allItems) : allItems[j].depth = 0}}
            = Children(files, lr_args.folderId)
    /\ FixtureRun(1) => PathsAndDepths(lr_result[1].items) = << <<"A", 0>> >>
    /\ FixtureRun(2) => PathsAndDepths(lr_result[1].items)
                            = << <<"A", 0>>, <<"A/x.txt", 1>>, <<"A/B", 1>> >>

\* the fixture was listed with maxDepth=1: A was emitted and its children were not
C7_Witness ==
    /\ FixtureRun(1)
    /\ Len(lr_result[1].items) = 1
    /\ ListCount(root) = 1 /\ ListCount(1) = 0

-----------------------------------------------------------------------------
(* C8 *)

IsPrefix(s, t) == Len(s) <= Len(t) /\ SubSeq(t, 1, Len(s)) = s

\* the entries a list of p's children returns under the call's filters
Listed(p) == {c \in Children(files, p) : MatchesAll(files[c], LR_Query(p, lr_args))}

RECURSIVE SumListed(_)
SumListed(S) ==
    IF S = {} THEN 0
    ELSE LET p == CHOOSE x \in S : TRUE
         IN Cardinality(Listed(p)) + SumListed(S \ {p})

\* C8: a backend failure while listing one container is caught and that
\* container contributes zero entries; the call still succeeds, entries
\* collected before the failure stay in the output, and the entries listed in
\* every other expanded container (the failed one's following siblings among
\* them) are emitted, the containers among them being expanded in turn.
C8_FailureIsLocal ==
    /\ [](lr_result # <<>> => lr_result[1].ok /\ lr_result[1].items = allItems)
    /\ [][IsPrefix(allItems, allItems')]_vars
    /\ [](LR_Done =>
            /\ Len(allItems) = SumListed(visited \ FailedIds)
            /\ \A p \in visited \ FailedIds : Listed(p) \subseteq ItemIds
            /\ \A k \in 1..Len(allItems) :
                  (allItems[k].mimeType = FOLDER
                     /\ allItems[k].depth + 1 < lr_args.maxDepth)
                  => allItems[k].id \in visited)

\* the listing of an emitted container failed, and a later sibling of it, a
\* container too, was emitted and listed successfully
C8_Witness ==
    /\ LR_Done /\ log # <<>>
    /\ \E k \in 1..Len(allItems) : \E j \in (k + 1)..Len(allItems) :
          /\ allItems[k].id \in FailedIds
          /\ allItems[j].depth = allItems[k].depth
          /\ allItems[j].mimeType = FOLDER
          /\ allItems[j].id \in visited \ FailedIds
          /\ Listed(allItems[j].id) # {}

-----------------------------------------------------------------------------
(* C15 *)

\* the entries emitted beneath the k-th one: those that follow it at a greater
\* depth with no entry of its depth or above in between
Block(items, k) ==
    {j \in (k + 1)..Len(items) :
        \A i \in (k + 1)..j : items[i].depth > items[k].depth}

\* the positions of the entries listed directly under the k-th one, and of the
\* entries listed directly under the folder the call started from
Kids(items, k) == {j \in Block(items, k) : items[j].depth = items[k].depth + 1}

TopLevel(items) == {j \in 1..Len(items) : items[j].depth = 0}

\* the entries at the positions S, in the order of emission, are the ids of l
SameOrder(items, S, l) ==
    /\ Cardinality(S) = Len(l)
    /\ \A j \in S : items[j].id = l[Cardinality({i \in S : i <= j})].id

\* the list the backend answers for the children of p under the call's filters
LR_Listing(p) == ListFiles(files, LR_Query(p, lr_args), LR_PAGE_SIZE, NoOrder)

\* the k-th entry is a container whose children the traversal listed
\* successfully right after emitting it
Expanded(items, k) ==
    /\ items[k].mimeType = FOLDER
    /\ items[k].depth + 1 < lr_args.maxDepth
    /\ items[k].id # lr_args.folderId
    /\ \A j \in 1..(k - 1) :
          ~(items[j].id = items[k].id /\ items[j].depth + 1 < lr_args.maxDepth)
    /\ items[k].id \notin FailedIds

(* C15: the output of listRecursive is in pre-order: every emitted container
   precedes all emitted entries found beneath it, the entries of one subtree
   are contiguous (they directly follow their container, before any later
   sibling), and siblings appear in the order the backend listed them. *)
C15_PreOrder ==
    /\ \A k \in 1..Len(allItems) :
          /\ k = 1 => allItems[k].depth = 0
          /\ k > 1 => allItems[k].depth <= allItems[k - 1].depth + 1
          /\ (k > 1 /\ allItems[k].depth = allItems[k - 1].depth + 1)
             => allItems[k - 1].mimeType = FOLDER
    /\ LR_Done =>
          /\ SameOrder(allItems, TopLevel(allItems),
                       IF lr_args.maxDepth = 0 \/ lr_args.folderId \in FailedIds
                       THEN <<>> ELSE LR_Listing(lr_args.folderId))
          /\ \A k \in 1..Len(allItems) :
                SameOrder(allItems, Kids(allItems, k),
                          IF Expanded(allItems, k)
                          THEN LR_Listing(allItems[k].id) ELSE <<>>)

\* a container with two entries was emitted, then its two entries in the
\* backend's order, then a later sibling of the container
C15_Witness ==
    /\ LR_Done
    /\ \E k \in 1..Len(allItems) :
          /\ Cardinality(Kids(allItems, k)) = 2
          /\ Len(LR_Listing(allItems[k].id)) = 2
          /\ \E j \in (k + 3)..Len(allItems) : allItems[j].depth = allItems[k].depth

-----------------------------------------------------------------------------
(* C16 *)

\* the position of the entry under which the k-th entry (of depth > 0) was
\* listed: the nearest earlier entry one level up
ParentPos(items, k) ==
    CHOOSE j \in 1..(k - 1) :
        /\ items[j].depth = items[k].depth - 1
        /\ \A i \in (j + 1)..(k - 1) : items[i].depth >= items[k].depth

\* the names from the entry listed under the start folder down to the k-th
RECURSIVE NameChain(_, _)
NameChain(items, k) ==
    IF items[k].depth = 0 THEN <<items[k].name>>
    ELSE NameChain(items, ParentPos(items, k)) \o <<items[k].name>>

RECURSIVE JoinNames(_)
JoinNames(names) ==
    IF Len(names) = 1 THEN names[1]
    ELSE JoinNames(SubSeq(names, 1, Len(names) - 1)) \o "/" \o names[Len(names)]

(* C16: every entry emitted by listRecursive carries a path equal to its own
   name when it is a direct child of the root, and equal to parentPath + "/" +
   name otherwise, where parentPath is the path of the container under which
   it was listed; hence the path is made of exactly depth+1 names. *)
C16_PathComposed ==
    \A k \in 1..Len(allItems) :
        LET it == allItems[k]
        IN /\ it.depth = 0 => it.path = it.name
           /\ it.depth > 0 =>
                LET p == allItems[ParentPos(allItems, k)]
                IN /\ p.mimeType = FOLDER
                   /\ it.id \in Children(files, p.id)
                   /\ it.path = p.path \o "/" \o it.name
           /\ Len(NameChain(allItems, k)) = it.depth + 1
           /\ it.path = JoinNames(NameChain(allItems, k))

\* a file two levels below a child of the root was emitted with its path
C16_Witness ==
    /\ LR_Done
    /\ \E k \in 1..Len(allItems) :
          /\ allItems[k].depth = 2
          /\ allItems[k].path = "A/B/x.txt"
          /\ allItems[k - 1].path = "A/B"
          /\ allItems[k - 2].path = "A"

-----------------------------------------------------------------------------
(* C22: with includeFiles=false, listRecursive outputs only containers,
   whatever the values of includeFolders and of the MIME-type filter: every
   request asks for the folders of a container and nothing else, and the
   folders of every listed container are in the output. *)
C22_OnlyContainers ==
    (lr_state # "idle" /\ ~lr_args.includeFiles)
    => /\ \A k \in 1..Len(allItems) : allItems[k].mimeType = FOLDER
       /\ \A k \in 1..Len(calls) :
             \E p \in visited :
                calls[k].q = <<InParents(p), TrashedFalse, MimeEq(FOLDER)>>
       /\ LR_Done =>
             \A p \in visited \ FailedIds :
                {c \in Children(files, p) : IsFolder(files, c)} \subseteq ItemIds

\* such a call, with includeFolders=false and a MIME filter, returned a folder
\* from a container that also holds a file of the filtered type
C22_Witness ==
    /\ LR_Done /\ log = <<>>
    /\ ~lr_args.includeFiles /\ ~lr_args.includeFolders /\ lr_args.mimeType = TEXT
    /\ allItems # <<>>
    /\ \E c \in Children(files, lr_args.folderId) : files[c].mimeType = TEXT
    /\ \E c \in Children(files, lr_args.folderId) : c \in ItemIds

-----------------------------------------------------------------------------
(* C23: in every listRecursive output, each entry's depth is exactly one more
   than the depth of the container under which it was listed (0 for the
   direct children of the start folder), and every emitted depth d satisfies
   0 <= d <= maxDepth. *)
C23_DepthOfEntries ==
    /\ [](\A k \in 1..Len(allItems) : allItems[k].depth \in 0..lr_args.maxDepth)
    /\ [][allItems' # allItems /\ allItems' # <<>>
          => LET it == allItems'[Len(allItems')]
                 t == Top(lr_stack)
             IN /\ it.id \in Children(files, t.parentId)
                /\ it.depth = Len(lr_stack) - 1
                /\ Len(lr_stack) = 1 => t.parentId = lr_args.folderId
                /\ Len(lr_stack) > 1 =>
                      \E j \in 1..Len(allItems) :
                         /\ allItems[j].id = t.parentId
                         /\ allItems[j].path = t.path
                         /\ allItems[j].mimeType = FOLDER
                         /\ it.depth = allItems[j].depth + 1]_vars

\* an entry was emitted at depth 2, below entries of depth 1 and 0
C23_Witness ==
    /\ LR_Done
    /\ \E k \in 3..Len(allItems) :
          /\ allItems[k].depth = 2
          /\ allItems[k - 1].depth = 1
          /\ allItems[k - 2].depth = 0
          /\ allItems[k].id \in Children(files, allItems[k - 1].id)

-----------------------------------------------------------------------------
\* the positions at which the output holds the entry id
Occurrences(items, id) == {k \in 1..Len(items) : items[k].id = id}

\* the k-th entry was reached below the depth bound, where traverseFolder
\* goes past its guard unless the container is in visited
BelowBound(items, k) == items[k].depth + 1 < lr_args.maxDepth

\* C28 as stated: a container is expanded only the first time it is reached,
\* so that entries follow beneath the first of its occurrences only.
C28_Original ==
    \A k \in 1..Len(allItems) :
        Kids(allItems, k) # {}
        => \A j \in 1..(k - 1) : allItems[j].id # allItems[k].id

(* C28: in listRecursive a container that is listed under two different
   parents is emitted once per listing, with the path of that listing, and is
   expanded at most once: at the first of its occurrences that lies below
   the depth bound (an occurrence at the bound does not put it into visited).
   Its descendants appear beneath that occurrence only, and a container whose
   listing failed is not listed again when it is reached through another
   parent. *)
C28_ExpandedOnce ==
    /\ \A id \in 0..Len(files) : ListCount(id) <= 1
    /\ \A k \in 1..Len(allItems) :
          Kids(allItems, k) # {}
          => /\ allItems[k].mimeType = FOLDER
             /\ BelowBound(allItems, k)
             /\ allItems[k].id # lr_args.folderId
             /\ allItems[k].id \notin FailedIds
             /\ \A j \in Occurrences(allItems, allItems[k].id) :
                   j # k => /\ Kids(allItems, j) = {}
                            /\ j < k => ~BelowBound(allItems, j)
    /\ LR_Done
       => \A id \in Ids(files) :
             /\ Cardinality(Occurrences(allItems, id))
                  = Cardinality({p \in visited \ FailedIds : id \in Listed(p)})
             /\ \A j, k \in Occurrences(allItems, id) :
                   j # k => allItems[j].path # allItems[k].path

\* a container with two parents was emitted twice, at the depth bound first and
\* above it later: its child follows beneath the second occurrence
C28_Witness ==
    /\ LR_Done
    /\ \E j, k \in 1..Len(allItems) :
          /\ j < k
          /\ allItems[j].id = allItems[k].id
          /\ allItems[j].path # allItems[k].path
          /\ ~BelowBound(allItems, j)
          /\ Kids(allItems, j) = {}
          /\ Kids(allItems, k) # {}

-----------------------------------------------------------------------------
(* get_folder_tree *)

GT_PAGE_SIZE == 50

GT_Args ==
    [folderId : 0..NumEntries,
     maxDepth : 0..MaxTreeDepth,
     includeFiles : BOOLEAN]

\* values of JavaScript: null, and an array
JNull == [t |-> "null"]
JArr(a) == [t |-> "array", a |-> a]

\* variant of the query: the folder-only clause is never added
GT_Query_KeepFiles(parentId, a) ==
    <<InParents(parentId), TrashedFalse>>

\* const q = [...]; if (!includeFiles) q.push(`mimeType = '...folder'`)
GT_Query(parentId, a) ==
    <<InParents(parentId), TrashedFalse>>
    \o (IF ~a.includeFiles THEN <<MimeEq(FOLDER)>> ELSE <<>>)

\* const item = {id, name, type: mimeType === folder ? 'folder' : 'file', size}
GT_Item(file) ==
    [id |-> file.id, name |-> file.name,
     type |-> IF file.mimeType = FOLDER THEN "folder" ELSE "file"]

\* if (children && children.length > 0) item.children = children
GT_WithChildren(item, children) ==
    IF children # JNull /\ Len(children.a) > 0
    THEN [id |-> item.id, name |-> item.name, type |-> item.type, children |-> children]
    ELSE item

\* root: {id: folderId, name: rootName, children: tree}
GT_Root(folderId, name, tree) ==
    [id |-> folderId, name |-> name, children |-> tree]

\* an activation of buildTree(parentId, depth = 0)
GT_Frame(parentId, depth) ==
    [parentId |-> parentId, depth |-> depth, pc |-> "entry",
     resp |-> <<>>, i |-> 1, items |-> <<>>]

\* buildTree returns v: to the loop of the calling activation, or to the tool
\* handler, which returns formatResponse({root: ...})
GT_Deliver(v) ==
    IF Len(gt_stack) = 1
    THEN /\ gt_stack' = <<>>
         /\ gt_state' = "done"
         /\ gt_result' = <<[ok |-> TRUE,
                            root |-> GT_Root(gt_args.folderId, rootName, v)]>>
    ELSE LET c == gt_stack[Len(gt_stack) - 1]
             item == GT_WithChildren(GT_Item(c.resp[c.i]), v)
         IN /\ gt_stack' = SetTop(Pop(gt_stack),
                              [c EXCEPT !.pc = "loop", !.i = c.i + 1,
                                        !.items = Append(c.items, item)])
            /\ UNCHANGED <<gt_state, gt_result>>

\* a rejected backend call is not caught by the tool: handleDriveOperation logs
\* it and rethrows
GT_Throw ==
    /\ log' = Append(log, [msg |-> "Drive operation failed", id |-> gt_args.folderId])
    /\ gt_stack' = <<>>
    /\ gt_state' = "done"
    /\ gt_result' = <<[ok |-> FALSE, error |-> "backend error"]>>

\* the tool is invoked with folderId 'root': rootName stays 'My Drive'
GT_StartRoot ==
    /\ gt_state = "idle"
    /\ \E a \in GT_Args :
        /\ a.folderId = root
        /\ gt_args' = a
    /\ gt_stack' = <<GT_Frame(root, 0)>>
    /\ gt_state' = "running"
    /\ UNCHANGED <<lrVars, rpVars, shVars, crVars, bdVars, backendVars, log, rootName, gt_result>>

\* the tool is invoked with another folderId: await drive.files.get({fileId, fields: 'name'})
GT_StartGet ==
    /\ gt_state = "idle"
    /\ \E a \in GT_Args :
        /\ a.folderId # root /\ IsFolder(files, a.folderId)
        /\ gt_args' = a
        /\ LET req == [op |-> "get", fileId |-> a.folderId]
           IN /\ calls' = Append(calls, req)
              /\ pending' = Append(pending, req)
    /\ gt_state' = "get"
    /\ UNCHANGED <<lrVars, rpVars, shVars, crVars, bdVars, files, log, gt_stack, rootName, gt_result>>

\* the get resolves: rootName = rootFile.data.name; then buildTree(folderId)
GT_GetOk ==
    /\ gt_state = "get" /\ pending # <<>>
    /\ rootName' = files[pending[1].fileId].name
    /\ pending' = Tail(pending)
    /\ gt_stack' = <<GT_Frame(gt_args.folderId, 0)>>
    /\ gt_state' = "running"
    /\ UNCHANGED <<lrVars, rpVars, shVars, crVars, bdVars, files, calls, log, gt_args, gt_result>>

\* the get rejects
GT_GetFail ==
    /\ gt_state = "get" /\ pending # <<>>
    /\ pending' = Tail(pending)
    /\ GT_Throw
    /\ UNCHANGED <<lrVars, rpVars, shVars, crVars, bdVars, files, calls, gt_args, rootName>>

\* variant of the bound: no bound
GT_AtDepth_Never(depth, maxDepth) == FALSE

\* variant of the bound: one level more
GT_AtDepth_OffByOne(depth, maxDepth) == depth > maxDepth

\* if (depth >= maxDepth) return null
GT_AtDepth(depth, maxDepth) == depth >= maxDepth

GT_Null ==
    /\ gt_state = "running" /\ gt_stack # <<>>
    /\ Top(gt_stack).pc = "entry"
    /\ GT_AtDepth(Top(gt_stack).depth, gt_args.maxDepth)
    /\ GT_Deliver(JNull)
    /\ UNCHANGED <<lrVars, rpVars, shVars, crVars, bdVars, backendVars, log, gt_args, rootName>>

\* await drive.files.list({q, fields, pageSize: 50, orderBy: 'name'})
GT_List ==
    /\ gt_state = "running" /\ gt_stack # <<>>
    /\ Top(gt_stack).pc = "entry"
    /\ ~GT_AtDepth(Top(gt_stack).depth, gt_args.maxDepth)
    /\ LET req == ListRequest(GT_Query(Top(gt_stack).parentId, gt_args),
                              GT_PAGE_SIZE, "name")
       IN /\ calls' = Append(calls, req)
          /\ pending' = Append(pending, req)
    /\ gt_stack' = SetTop(gt_stack, [Top(gt_stack) EXCEPT !.pc = "await"])
    /\ UNCHANGED <<lrVars, rpVars, shVars, crVars, bdVars, files, log, gt_state, gt_args, rootName, gt_result>>

\* the list resolves: const items = []; the loop starts
GT_ListOk ==
    /\ gt_state = "running" /\ gt_stack # <<>>
    /\ Top(gt_stack).pc = "await" /\ pending # <<>>
    /\ gt_stack' = SetTop(gt_stack,
            [Top(gt_stack) EXCEPT !.pc = "loop", !.i = 1, !.items = <<>>,
                                  !.resp = ListResponse(files, pending[1])])
    /\ pending' = Tail(pending)
    /\ UNCHANGED <<lrVars, rpVars, shVars, crVars, bdVars, files, calls, log, gt_state, gt_args, rootName, gt_result>>

\* variant of the failure path: the error is caught and the branch counts as empty
GT_ListFail_Caught ==
    /\ gt_state = "running" /\ gt_stack # <<>>
    /\ Top(gt_stack).pc = "await" /\ pending # <<>>
    /\ pending' = Tail(pending)
    /\ log' = Append(log, [msg |-> "Error traversing folder", id |-> Top(gt_stack).parentId])
    /\ GT_Deliver(JArr(<<>>))
    /\ UNCHANGED <<lrVars, rpVars, shVars, crVars, bdVars, files, calls, gt_args, rootName>>

\* the list rejects: nothing catches it below handleDriveOperation
GT_ListFail ==
    /\ gt_state = "running" /\ gt_stack # <<>>
    /\ Top(gt_stack).pc = "await" /\ pending # <<>>
    /\ pending' = Tail(pending)
    /\ GT_Throw
    /\ UNCHANGED <<lrVars, rpVars, shVars, crVars, bdVars, files, calls, gt_args, rootName>>

\* one iteration of the loop on a file: items.push(item)
GT_LoopFile ==
    /\ gt_state = "running" /\ gt_stack # <<>>
    /\ Top(gt_stack).pc = "loop"
    /\ Top(gt_stack).i <= Len(Top(gt_stack).resp)
    /\ LET t == Top(gt_stack)
           item == GT_Item(t.resp[t.i])
       IN /\ item.type # "folder"
          /\ gt_stack' = SetTop(gt_stack,
                [t EXCEPT !.i = t.i + 1, !.items = Append(t.items, item)])
    /\ UNCHANGED <<lrVars, rpVars, shVars, crVars, bdVars, backendVars, log, gt_state, gt_args, rootName, gt_result>>

\* one iteration of the loop on a folder: await buildTree(file.id, depth + 1)
GT_LoopFolder ==
    /\ gt_state = "running" /\ gt_stack # <<>>
    /\ Top(gt_stack).pc = "loop"
    /\ Top(gt_stack).i <= Len(Top(gt_stack).resp)
    /\ LET t == Top(gt_stack)
           item == GT_Item(t.resp[t.i])
       IN /\ item.type = "folder"
          /\ gt_stack' = Append(SetTop(gt_stack, [t EXCEPT !.pc = "call"]),
                                GT_Frame(item.id, t.depth + 1))
    /\ UNCHANGED <<lrVars, rpVars, shVars, crVars, bdVars, backendVars, log, gt_state, gt_args, rootName, gt_result>>

\* the loop is exhausted: return items
GT_LoopEnd ==
    /\ gt_state = "running" /\ gt_stack # <<>>
    /\ Top(gt_stack).pc = "loop"
    /\ Top(gt_stack).i > Len(Top(gt_stack).resp)
    /\ GT_Deliver(JArr(Top(gt_stack).items))
    /\ UNCHANGED <<lrVars, rpVars, shVars, crVars, bdVars, backendVars, log, gt_args, rootName>>

GT_Init ==
    /\ files \in TraversalBackends(NumEntries)
    /\ NoRequests
    /\ LR_Idle
    /\ GT_Idle
    /\ RP_Idle
    /\ CR_Idle
    /\ BD_Idle
    /\ SH_Idle

GT_Next ==
    \/ GT_StartRoot
    \/ GT_StartGet
    \/ GT_GetOk
    \/ GT_GetFail
    \/ GT_Null
    \/ GT_List
    \/ GT_ListOk
    \/ GT_ListFail
    \/ GT_LoopFile
    \/ GT_LoopFolder
    \/ GT_LoopEnd

SpecTree == GT_Init /\ [][GT_Next]_vars

-----------------------------------------------------------------------------
(* C9: in buildTree a backend failure on any list call (at any depth) or on
   the root metadata get aborts the whole operation: the error reaches the
   caller and no partial tree is returned. *)
C9_FailureAborts ==
    /\ log # <<>> =>
          /\ gt_state = "done" /\ gt_stack = <<>> /\ pending = <<>>
          /\ gt_result = <<[ok |-> FALSE, error |-> "backend error"]>>
    /\ (gt_state = "done" /\ gt_result[1].ok) => log = <<>>

\* a list call below the root failed after the get and the root's list succeeded
C9_Witness ==
    /\ gt_state = "done" /\ ~gt_result[1].ok
    /\ Len(calls) >= 3
    /\ calls[1].op = "get"
    /\ calls[Len(calls)].op = "list"

-----------------------------------------------------------------------------
(* C10: buildTree(root, maxDepth=0, ...) returns the root node with no
   children field at all (absent, not null and not an empty list) and issues
   no list request. *)
C10_NoChildrenFieldAtDepthZero ==
    (gt_state = "done" /\ gt_result[1].ok /\ gt_args.maxDepth = 0)
    => /\ "children" \notin DOMAIN gt_result[1].root
       /\ \A k \in 1..Len(calls) : calls[k].op # "list"

-----------------------------------------------------------------------------
(* C11 *)

\* get_folder_tree returned the tree of the fixture, folders only, maxDepth 2
TreeFixtureRun ==
    /\ gt_state = "done" /\ gt_result[1].ok
    /\ files = Fixture
    /\ gt_args = [folderId |-> root, maxDepth |-> 2, includeFiles |-> FALSE]

NodeA == [id |-> 1, name |-> "A", type |-> "folder"]
NodeB == [id |-> 3, name |-> "B", type |-> "folder"]

\* C11 as stated: on the fixture root -> A -> {x.txt, empty folder B},
\* buildTree(root, maxDepth=2, includeLeaves=false) returns the root with
\* children [A] where A has no children field.
C11_Original ==
    TreeFixtureRun => gt_result[1].root.children = JArr(<<NodeA>>)

(* C11: on the fixture root -> A -> {x.txt, empty folder B},
   buildTree(root, maxDepth=2, includeLeaves=false) returns the root with
   children [A], A with children [B], and B without a children field; the
   file x.txt appears nowhere. *)
C11_EmptyFolderKept ==
    TreeFixtureRun =>
        gt_result[1].root =
            [id |-> root, name |-> "My Drive",
             children |-> JArr(<<GT_WithChildren(NodeA, JArr(<<NodeB>>))>>)]

C11_Witness ==
    /\ TreeFixtureRun
    /\ Len(calls) = 2
    /\ "children" \in DOMAIN gt_result[1].root.children.a[1]
    /\ "children" \notin DOMAIN gt_result[1].root.children.a[1].children.a[1]

-----------------------------------------------------------------------------
(* C17 *)

\* the list the backend answers for the children of p under the call's filter
GT_Listing(p) == ListFiles(files, GT_Query(p, gt_args), GT_PAGE_SIZE, "name")

\* node n, whose children are at depth d, and every node below it: a leaf has
\* no children field, a container has one exactly when its recursive listing
\* yields a node, and then it is a non-empty array
RECURSIVE ChildrenWhenNonEmpty(_, _)
ChildrenWhenNonEmpty(n, d) ==
    IF "type" \in DOMAIN n /\ n.type # "folder"
    THEN "children" \notin DOMAIN n
    ELSE /\ ("children" \in DOMAIN n)
              <=> (d < gt_args.maxDepth /\ GT_Listing(n.id) # <<>>)
         /\ "children" \in DOMAIN n =>
              /\ n.children # JNull
              /\ n.children.a # <<>>
              /\ \A k \in 1..Len(n.children.a) :
                    ChildrenWhenNonEmpty(n.children.a[k], d + 1)

(* C17: in every tree returned by buildTree, no node (root included) carries
   a children field that is present but empty or null: children is attached to
   a container exactly when the recursive listing of that container yields at
   least one node, and leaf nodes never carry children. *)
C17_NoEmptyChildren ==
    (gt_state = "done" /\ gt_result[1].ok)
    => ChildrenWhenNonEmpty(gt_result[1].root, 0)

-----------------------------------------------------------------------------
(* C20 *)

\* every node of the array of nodes c, which sits at depth d, and every node
\* below, lies at a depth < maxDepth
RECURSIVE NodesWithin(_, _)
NodesWithin(c, d) ==
    \/ c = JNull
    \/ \A k \in 1..Len(c.a) :
          /\ d < gt_args.maxDepth
          /\ "children" \in DOMAIN c.a[k] => NodesWithin(c.a[k].children, d + 1)

\* the containers among the nodes s (at depth d) and below them whose depth is
\* less than maxDepth - 1
RECURSIVE InnerFolders(_, _)
InnerFolders(s, d) ==
    IF s = <<>> THEN 0
    ELSE (IF Head(s).type = "folder" /\ d < gt_args.maxDepth - 1 THEN 1 ELSE 0)
         + (IF "children" \in DOMAIN Head(s)
            THEN InnerFolders(Head(s).children.a, d + 1) ELSE 0)
         + InnerFolders(Tail(s), d)

ListCalls == {k \in 1..Len(calls) : calls[k].op = "list"}

\* the largest number of containers one container holds
Branching ==
    LET n(p) == Cardinality({c \in Children(files, p) : IsFolder(files, c)})
    IN CHOOSE b \in 0..Len(files) :
          /\ \E p \in 0..Len(files) : n(p) = b
          /\ \A p \in 0..Len(files) : n(p) <= b

\* 1 + b + ... + b^(m-1)
RECURSIVE GeomSum(_, _)
GeomSum(b, m) == IF m = 0 THEN 0 ELSE 1 + b * GeomSum(b, m - 1)

(* C20: buildTree never fetches beyond the bound: counting the root's
   children as depth 0, every node in the returned tree lies at depth <
   maxDepth, and no list request is issued for the children of a container at
   depth >= maxDepth - 1 (an activation at depth >= maxDepth lists nothing),
   so the number of list requests, one for the root and one per container at
   depth < maxDepth - 1, is bounded by the branching factor and maxDepth. *)
C20_BoundedFetch ==
    /\ [](\A j \in 1..Len(gt_stack) :
             /\ gt_stack[j].depth = j - 1
             /\ gt_stack[j].pc # "entry" => gt_stack[j].depth < gt_args.maxDepth)
    /\ [][Len(calls') > Len(calls) /\ calls'[Len(calls')].op = "list"
          => /\ gt_stack # <<>> /\ Top(gt_stack).depth < gt_args.maxDepth
             /\ calls'[Len(calls')].q[1] = InParents(Top(gt_stack).parentId)]_vars
    /\ []((gt_state = "done" /\ gt_result[1].ok) =>
            /\ NodesWithin(gt_result[1].root.children, 0)
            /\ Cardinality(ListCalls)
                 = IF gt_args.maxDepth = 0 THEN 0
                   ELSE 1 + InnerFolders(gt_result[1].root.children.a, 0)
            /\ Cardinality(ListCalls) <= GeomSum(Branching, gt_args.maxDepth))

\* maxDepth 2: the container at depth 1 holds entries and they were not fetched
C20_Witness ==
    /\ gt_state = "done" /\ gt_result[1].ok
    /\ gt_args.maxDepth = 2
    /\ Cardinality(ListCalls) = 2
    /\ \E k \in 1..Len(gt_result[1].root.children.a) :
          LET n == gt_result[1].root.children.a[k]
          IN /\ "children" \in DOMAIN n
             /\ \E j \in 1..Len(n.children.a) :
                   /\ n.children.a[j].type = "folder"
                   /\ "children" \notin DOMAIN n.children.a[j]
                   /\ GT_Listing(n.children.a[j].id) # <<>>

-----------------------------------------------------------------------------
(* C29 *)

\* the steps of a call in progress: continuations the event loop runs and
\* answers of the backend
GT_Step ==
    \/ GT_GetOk
    \/ GT_GetFail
    \/ GT_Null
    \/ GT_List
    \/ GT_ListOk
    \/ GT_ListFail
    \/ GT_LoopFile
    \/ GT_LoopFolder
    \/ GT_LoopEnd

\* runs over the smaller backends that contain a cycle
GT_InitCyclic ==
    /\ files \in {fs \in TraversalBackends(CycleEntries) : Cyclic(fs)}
    /\ NoRequests
    /\ LR_Idle
    /\ GT_Idle
    /\ RP_Idle
    /\ CR_Idle
    /\ BD_Idle
    /\ SH_Idle

\* the event loop runs every continuation and the backend answers every request
FairSpecTree == GT_InitCyclic /\ [][GT_Next]_vars /\ WF_vars(GT_Step)

Max(S) == CHOOSE m \in S : \A n \in S : n <= m

\* the largest number of nodes with the given id on one branch of the array of
\* nodes c and what lies below it
RECURSIVE OnBranch(_, _)
OnBranch(c, id) ==
    IF c = JNull THEN 0
    ELSE Max({0} \cup
             {(IF c.a[k].id = id THEN 1 ELSE 0)
              + (IF "children" \in DOMAIN c.a[k] THEN OnBranch(c.a[k].children, id) ELSE 0) :
                k \in 1..Len(c.a)})

(* C29: buildTree has no visited-set: on a cyclic backend graph it still
   terminates for every finite maxDepth, solely because of the depth bound
   (the activations on the stack are at depths 0, 1, 2, ... and none is
   deeper than maxDepth), and a container that lies on a cycle can appear
   several times in the returned tree, at most once per depth level along one
   branch, hence at most maxDepth times. *)
C29_TerminatesByDepth ==
    /\ (Cyclic(files) /\ gt_state = "running") ~> (gt_state = "done")
    /\ [](/\ Len(gt_stack) <= gt_args.maxDepth + 1
          /\ \A j \in 1..Len(gt_stack) : gt_stack[j].depth = j - 1)
    /\ []((gt_state = "done" /\ gt_result[1].ok)
          => \A id \in Ids(files) :
                OnBranch(gt_result[1].root.children, id) <= gt_args.maxDepth)

\* a call with the largest depth bound ended on a backend in which a container
\* holds itself: the container appears on every level of one branch
C29_Witness ==
    /\ gt_state = "done" /\ gt_result[1].ok
    /\ gt_args.maxDepth = MaxTreeDepth
    /\ \E id \in Ids(files) :
          /\ id \in Children(files, id)
          /\ OnBranch(gt_result[1].root.children, id) = MaxTreeDepth

-----------------------------------------------------------------------------
(* get_folder_id_for_path *)

RP_PAGE_SIZE == 1

\* the characters a path argument is made of
PathChars == {"/", "a", "b"}

Paths == UNION {[1..n -> PathChars] : n \in 0..MaxPathLen}

\* the path as a string
RECURSIVE PathString(_)
PathString(p) == IF p = <<>> THEN "" ELSE Head(p) \o PathString(Tail(p))

\* path.split('/'): the pieces between the slashes, empty ones included
RECURSIVE Split(_, _)
Split(p, piece) ==
    IF p = <<>> THEN <<piece>>
    ELSE IF Head(p) = "/" THEN <<piece>> \o Split(Tail(p), "")
    ELSE Split(Tail(p), piece \o Head(p))

\* variant of the filter: every piece is kept
NonEmpty_KeepAll(f) == TRUE

\* .filter(f => f): the empty string is falsy
NonEmpty(f) == f # ""

\* variant of the segments: the pieces are not filtered
RP_Folders_Pieces(p) == Split(p, "")

\* const folders = path.split('/').filter(f => f)
RP_Folders(p) == SelectSeq(Split(p, ""), NonEmpty)

\* the backends a path is resolved against: folders and files named a or b,
\* some of them trashed, each under the root or under an earlier folder
ResolverBackends ==
    UNION {
      {fs \in [1..n -> [name : {"a", "b"},
                        mimeType : {FOLDER, TEXT},
                        parents : {{q} : q \in 0..n},
                        trashed : BOOLEAN]] :
          \A i \in 1..n : \A q \in fs[i].parents : q < i /\ IsFolder(fs, q)}
      : n \in 0..MaxFolders}

\* q: name = '...' and mimeType = '...folder' and '...' in parents and trashed = false
RP_Query(folderName, parentId) ==
    <<NameEq(folderName), MimeEq(FOLDER), InParents(parentId), TrashedFalse>>

\* variant of the message: the missing segment is not named
RP_NotFoundMessage_PathOnly(folderName, path) ==
    "Folder not found: " \o PathString(path)

\* `Folder not found: ${folderName} in path ${path}`
RP_NotFoundMessage(folderName, path) ==
    "Folder not found: " \o folderName \o " in path " \o PathString(path)

\* variant of the request: the folder is created under the root
RP_NewFolder_UnderRoot(folderName, parentId) ==
    [name |-> folderName, mimeType |-> FOLDER, parents |-> {root}, trashed |-> FALSE]

\* requestBody of drive.files.create
RP_NewFolder(folderName, parentId) ==
    [name |-> folderName, mimeType |-> FOLDER, parents |-> {parentId}, trashed |-> FALSE]

\* the tool call ends: what it returned or threw, and how many requests the
\* backend had received by then
RP_Finish(ret) ==
    /\ responses' = Append(responses, [args |-> rp_args, ret |-> ret, ncalls |-> Len(calls)])
    /\ rp_state' = "done"

\* an error leaves the tool: handleDriveOperation logs it and rethrows
RP_Throw(message) ==
    /\ log' = Append(log, [msg |-> "Drive operation failed", id |-> currentParentId])
    /\ RP_Finish([ok |-> FALSE, error |-> message])

\* the path p without the slashes that open, close or repeat
RECURSIVE Squeeze(_, _)
Squeeze(p, afterSlash) ==
    IF p = <<>> THEN <<>>
    ELSE IF Head(p) # "/" THEN <<Head(p)>> \o Squeeze(Tail(p), FALSE)
    ELSE IF afterSlash \/ \A k \in 1..Len(p) : p[k] = "/" THEN Squeeze(Tail(p), TRUE)
    ELSE <<"/">> \o Squeeze(Tail(p), TRUE)

PlainPath(p) == Squeeze(p, TRUE)

\* the paths an invocation is given: any path at first, and then the path that
\* names the same folders without empty segments
RP_Paths == IF responses = <<>> THEN Paths ELSE {PlainPath(rp_args.path)}

\* the tool is invoked
RP_Start ==
    /\ rp_state \in {"idle", "done"}
    /\ Len(responses) < MaxCalls
    /\ \E p \in RP_Paths : \E c \in BOOLEAN :
        /\ rp_args' = [path |-> p, createIfNotExists |-> c]
        /\ folders' = RP_Folders(p)
    /\ currentParentId' = root
    /\ rp_i' = 1
    /\ rp_state' = "loop"
    /\ UNCHANGED <<lrVars, gtVars, shVars, crVars, bdVars, backendVars, log, responses>>

\* for (const folderName of folders): await drive.files.list({q, fields, pageSize: 1})
RP_List ==
    /\ rp_state = "loop"
    /\ rp_i <= Len(folders)
    /\ LET req == ListRequest(RP_Query(folders[rp_i], currentParentId),
                              RP_PAGE_SIZE, NoOrder)
       IN /\ calls' = Append(calls, req)
          /\ pending' = Append(pending, req)
    /\ rp_state' = "list"
    /\ UNCHANGED <<lrVars, gtVars, shVars, crVars, bdVars, files, log, rp_args, folders, rp_i,
                   currentParentId, responses>>

\* files.length > 0: currentParentId = response.data.files[0].id
RP_Found ==
    /\ rp_state = "list" /\ pending # <<>>
    /\ LET resp == ListResponse(files, pending[1])
       IN /\ Len(resp) > 0
          /\ currentParentId' = resp[1].id
    /\ pending' = Tail(pending)
    /\ rp_i' = rp_i + 1
    /\ rp_state' = "loop"
    /\ UNCHANGED <<lrVars, gtVars, shVars, crVars, bdVars, files, calls, log, rp_args, folders, responses>>

\* no match: the create is issued whatever createIfNotExists says
RP_Create_Always ==
    /\ rp_state = "list" /\ pending # <<>>
    /\ Len(ListResponse(files, pending[1])) = 0
    /\ LET req == [op |-> "create",
                   requestBody |-> RP_NewFolder(folders[rp_i], currentParentId)]
       IN /\ calls' = Append(calls, req)
          /\ pending' = Append(Tail(pending), req)
    /\ rp_state' = "create"
    /\ UNCHANGED <<lrVars, gtVars, shVars, crVars, bdVars, files, log, rp_args, folders, rp_i,
                   currentParentId, responses>>

\* no match and createIfNotExists: await drive.files.create({requestBody, fields: 'id'})
RP_Create ==
    /\ rp_state = "list" /\ pending # <<>>
    /\ Len(ListResponse(files, pending[1])) = 0
    /\ rp_args.createIfNotExists
    /\ LET req == [op |-> "create",
                   requestBody |-> RP_NewFolder(folders[rp_i], currentParentId)]
       IN /\ calls' = Append(calls, req)
          /\ pending' = Append(Tail(pending), req)
    /\ rp_state' = "create"
    /\ UNCHANGED <<lrVars, gtVars, shVars, crVars, bdVars, files, log, rp_args, folders, rp_i,
                   currentParentId, responses>>

\* no match and no createIfNotExists: throw new Error(`Folder not found: ...`)
RP_NotFound ==
    /\ rp_state = "list" /\ pending # <<>>
    /\ Len(ListResponse(files, pending[1])) = 0
    /\ ~rp_args.createIfNotExists
    /\ pending' = Tail(pending)
    /\ RP_Throw(RP_NotFoundMessage(folders[rp_i], rp_args.path))
    /\ UNCHANGED <<lrVars, gtVars, shVars, crVars, bdVars, files, calls, rp_args, folders, rp_i, currentParentId>>

\* the list call rejects and the folders created by the call are removed
RP_ListFail_Rollback ==
    /\ rp_state = "list" /\ pending # <<>>
    /\ pending' = Tail(pending)
    /\ files' = SubSeq(files, 1, Len(files) - Cardinality(
                    {k \in ((IF responses = <<>> THEN 0 ELSE responses[Len(responses)].ncalls)
                             + 1)..Len(calls) : calls[k].op = "create"}))
    /\ RP_Throw("backend error")
    /\ UNCHANGED <<lrVars, gtVars, shVars, crVars, bdVars, calls, rp_args, folders, rp_i, currentParentId>>

\* the list call rejects
RP_ListFail ==
    /\ rp_state = "list" /\ pending # <<>>
    /\ pending' = Tail(pending)
    /\ RP_Throw("backend error")
    /\ UNCHANGED <<lrVars, gtVars, shVars, crVars, bdVars, files, calls, rp_args, folders, rp_i, currentParentId>>

\* variant of the create path: the new folder is not descended into
RP_Created_NoDescend ==
    /\ rp_state = "create" /\ pending # <<>>
    /\ files' = Append(files, pending[1].requestBody)
    /\ pending' = Tail(pending)
    /\ rp_i' = rp_i + 1
    /\ rp_state' = "loop"
    /\ UNCHANGED <<lrVars, gtVars, shVars, crVars, bdVars, calls, log, rp_args, folders, currentParentId, responses>>

\* the create call resolves: currentParentId = createResponse.data.id
RP_Created ==
    /\ rp_state = "create" /\ pending # <<>>
    /\ files' = Append(files, pending[1].requestBody)
    /\ currentParentId' = Len(files) + 1
    /\ pending' = Tail(pending)
    /\ rp_i' = rp_i + 1
    /\ rp_state' = "loop"
    /\ UNCHANGED <<lrVars, gtVars, shVars, crVars, bdVars, calls, log, rp_args, folders, responses>>

\* the create call rejects
RP_CreateFail ==
    /\ rp_state = "create" /\ pending # <<>>
    /\ pending' = Tail(pending)
    /\ RP_Throw("backend error")
    /\ UNCHANGED <<lrVars, gtVars, shVars, crVars, bdVars, files, calls, rp_args, folders, rp_i, currentParentId>>

\* the loop is exhausted: return formatResponse({path, folderId: currentParentId})
RP_Return ==
    /\ rp_state = "loop"
    /\ rp_i > Len(folders)
    /\ RP_Finish([ok |-> TRUE, path |-> rp_args.path, folderId |-> currentParentId])
    /\ UNCHANGED <<lrVars, gtVars, shVars, crVars, bdVars, backendVars, log, rp_args, folders, rp_i, currentParentId>>

RP_Init ==
    /\ files \in ResolverBackends
    /\ NoRequests
    /\ LR_Idle
    /\ GT_Idle
    /\ RP_Idle
    /\ CR_Idle
    /\ BD_Idle
    /\ SH_Idle

RP_Next ==
    \/ RP_Start
    \/ RP_List
    \/ RP_Found
    \/ RP_Create
    \/ RP_NotFound
    \/ RP_ListFail
    \/ RP_Created
    \/ RP_CreateFail
    \/ RP_Return

SpecResolve == RP_Init /\ [][RP_Next]_vars

-----------------------------------------------------------------------------
(* Vocabulary of the properties of get_folder_id_for_path *)

Last(s) == s[Len(s)]

\* the tool call threw an error of its own, not one of the backend
BackendAnswered(r) == r.ret.ok \/ r.ret.error # "backend error"

\* the requests the backend had received when the latest call started
CallsBefore == IF Len(responses) >= 2 THEN responses[Len(responses) - 1].ncalls ELSE 0

\* the folders named n that are listed under parent p
FoldersNamed(n, p) ==
    {i \in Ids(files) : /\ files[i].name = n /\ files[i].mimeType = FOLDER
                        /\ p \in files[i].parents /\ ~files[i].trashed}

-----------------------------------------------------------------------------
(* C1: idempotent creation: for every path P (in particular one with no empty
   segments), if resolvePath(P, true) succeeds and nobody else modifies the
   backend, a following resolvePath(P, false) to which the backend answers
   succeeds and returns the same container id. *)
C1_IdempotentCreation ==
    \A i \in 1..(Len(responses) - 1) :
        LET r1 == responses[i]
            r2 == responses[i + 1]
        IN (/\ r1.args.createIfNotExists /\ r1.ret.ok
            /\ ~r2.args.createIfNotExists /\ r2.args.path = r1.args.path
            /\ BackendAnswered(r2))
           => (r2.ret.ok /\ r2.ret.folderId = r1.ret.folderId)

\* a two-segment path without empty segments was resolved with creation, which
\* created a folder, and then resolved again without creation
C1_Witness ==
    /\ Len(responses) = 2
    /\ responses[1].args.createIfNotExists /\ responses[1].ret.ok
    /\ ~responses[2].args.createIfNotExists /\ responses[2].ret.ok
    /\ responses[1].args.path = <<"a", "/", "b">>
    /\ responses[2].ret.folderId = responses[1].ret.folderId
    /\ \E k \in 1..responses[1].ncalls : calls[k].op = "create"
    /\ Cardinality(FoldersNamed("a", root)) >= 1

-----------------------------------------------------------------------------
(* C2: when the backend lists no container of a segment's name under the
   current parent and createIfMissing is false, resolution stops at that
   segment (no later segment is queried) and the call fails with a NotFound
   error naming the missing segment and the full requested path. *)
C2_NotFoundStops ==
    /\ []((/\ rp_state = "done" /\ ~rp_args.createIfNotExists
           /\ ~Last(responses).ret.ok /\ BackendAnswered(Last(responses)))
          => /\ rp_i \in 1..Len(folders)
             /\ Last(responses).ret.error
                  = "Folder not found: " \o folders[rp_i] \o " in path "
                      \o PathString(rp_args.path)
             /\ FoldersNamed(folders[rp_i], currentParentId) = {}
             /\ Len(calls) - CallsBefore = rp_i
             /\ Last(calls).op = "list"
             /\ Last(calls).q[1] = NameEq(folders[rp_i]))
    /\ [][(/\ rp_state = "list" /\ ~rp_args.createIfNotExists
           /\ FoldersNamed(folders[rp_i], currentParentId) = {}
           /\ rp_state' # "list")
          => (/\ rp_state' = "done" /\ ~Last(responses').ret.ok
              /\ calls' = calls /\ files' = files)]_vars

\* the first of two segments was missing: the call failed without a second query
C2_Witness ==
    /\ rp_state = "done" /\ ~rp_args.createIfNotExists
    /\ ~Last(responses).ret.ok /\ BackendAnswered(Last(responses))
    /\ Len(folders) = 2 /\ rp_i = 1
    /\ Len(calls) - CallsBefore = 1

-----------------------------------------------------------------------------
(* Requests of one invocation *)

\* the requests the backend received during the i-th invocation
RequestsOf(i) ==
    SubSeq(calls, (IF i = 1 THEN 0 ELSE responses[i - 1].ncalls) + 1, responses[i].ncalls)

IsList(req) == req.op = "list"

ListsOf(i) == SelectSeq(RequestsOf(i), IsList)

HasEmptySegment(p) == \E k \in 1..Len(Split(p, "")) : Split(p, "")[k] = ""

-----------------------------------------------------------------------------
(* C12: resolvePath ignores empty segments: a path with extra leading,
   trailing or doubled slashes, and then the same path without them, resolved
   one after the other with the backend answering, cause the same backend
   requests and return the same container id: when the first resolution
   succeeds so does the second, with the same id and the same list requests
   (the folders the first may have created are found by the second); when the
   first created nothing and both have the same createIfMissing, their whole
   request sequences and outcomes agree. *)
C12_EmptySegmentsIgnored ==
    \A i \in 1..(Len(responses) - 1) :
        LET r1 == responses[i]
            r2 == responses[i + 1]
        IN (/\ HasEmptySegment(r1.args.path)
            /\ BackendAnswered(r1) /\ BackendAnswered(r2))
           => /\ RP_Folders(r2.args.path) = RP_Folders(r1.args.path)
              /\ r1.ret.ok =>
                    /\ r2.ret.ok /\ r2.ret.folderId = r1.ret.folderId
                    /\ ListsOf(i + 1) = ListsOf(i)
              /\ (/\ ListsOf(i) = RequestsOf(i)
                  /\ r2.args.createIfNotExists = r1.args.createIfNotExists)
                 => /\ RequestsOf(i + 1) = RequestsOf(i)
                    /\ r2.ret.ok = r1.ret.ok
                    /\ r1.ret.ok => r2.ret.folderId = r1.ret.folderId

\* "/a/" was resolved with creation and created the folder; then "a" was
\* resolved, found it and returned it
C12_Witness ==
    /\ Len(responses) = 2
    /\ responses[1].args.path = <<"/", "a", "/">>
    /\ responses[2].args.path = <<"a">>
    /\ responses[1].ret.ok /\ responses[2].ret.ok
    /\ Len(RequestsOf(1)) = 2 /\ RequestsOf(1)[2].op = "create"
    /\ ListsOf(2) = ListsOf(1)
    /\ responses[2].ret.folderId = responses[1].ret.folderId

-----------------------------------------------------------------------------
(* C13: resolvePath on a path that has no non-empty segment ("", "/", "//")
   returns the root id, for either value of createIfMissing, without issuing
   any backend list or create request. *)
OnlySlashes(p) == \A k \in 1..Len(p) : p[k] = "/"

C13_EmptyPathIsRoot ==
    /\ \A i \in 1..Len(responses) :
          OnlySlashes(responses[i].args.path)
          => /\ responses[i].ret
                  = [ok |-> TRUE, path |-> responses[i].args.path, folderId |-> root]
             /\ RequestsOf(i) = <<>>
    /\ (rp_state # "idle" /\ OnlySlashes(rp_args.path))
       => /\ rp_state \in {"loop", "done"}
          /\ pending = <<>> /\ files \in ResolverBackends

\* "//" was resolved with createIfMissing over a backend that has a folder
C13_Witness ==
    /\ Len(responses) = 1
    /\ responses[1].args = [path |-> <<"/", "/">>, createIfNotExists |-> TRUE]
    /\ responses[1].ret.ok /\ responses[1].ret.folderId = root
    /\ calls = <<>>
    /\ files # <<>> /\ IsFolder(files, 1)

-----------------------------------------------------------------------------
(* C14 *)

\* the names on the chain of parents from below the root down to id (every
\* entry of a resolver backend has one parent)
RECURSIVE AncestorNames(_, _)
AncestorNames(fs, id) ==
    IF id = root THEN <<>>
    ELSE AncestorNames(fs, CHOOSE q \in fs[id].parents : TRUE) \o <<fs[id].name>>

(* C14: when resolvePath with createIfMissing=true finds no container for a
   segment, it creates exactly one container with that segment's name whose
   only parent is the current parent, and continues from the newly created
   id; on success the returned id is a container whose chain of ancestors
   below the root carries exactly the path's segment names in order. *)
C14_CreatesAndDescends ==
    /\ [][(rp_state = "list" /\ rp_args.createIfNotExists
           /\ FoldersNamed(folders[rp_i], currentParentId) = {}
           /\ rp_state' \notin {"list", "done"})
          => /\ rp_state' = "create"
             /\ calls' = Append(calls,
                    [op |-> "create",
                     requestBody |-> [name |-> folders[rp_i], mimeType |-> FOLDER,
                                      parents |-> {currentParentId},
                                      trashed |-> FALSE]])
             /\ files' = files]_vars
    /\ [][(rp_state = "create" /\ rp_state' = "loop")
          => /\ files' = Append(files, Last(calls).requestBody)
             /\ currentParentId' = Len(files')
             /\ rp_i' = rp_i + 1
             /\ calls' = calls]_vars
    /\ [][files' # files => (rp_state = "create" /\ Len(files') = Len(files) + 1)]_vars
    /\ [](\A i \in 1..Len(responses) :
            (responses[i].args.createIfNotExists /\ responses[i].ret.ok)
            => LET id == responses[i].ret.folderId
               IN /\ id = root \/ (IsFolder(files, id) /\ ~files[id].trashed)
                  /\ AncestorNames(files, id) = RP_Folders(responses[i].args.path))

\* "a/b" was resolved with createIfMissing: a was found, b was created under it
C14_Witness ==
    /\ Len(responses) = 1 /\ responses[1].ret.ok
    /\ responses[1].args = [path |-> <<"a", "/", "b">>, createIfNotExists |-> TRUE]
    /\ Len(calls) = 3 /\ calls[3].op = "create"
    /\ responses[1].ret.folderId = Len(files)
    /\ AncestorNames(files, Len(files)) = <<"a", "b">>

-----------------------------------------------------------------------------
(* The Sheets backend: one sheet of a spreadsheet *)

SheetName == "Sheet1"

\* the columns of the sheet and the texts a cell holds ("" is an empty cell)
Columns == <<"A", "B">>
CellTexts == {"", "a", "1"}

Sheets == UNION {[1..n -> [1..Len(Columns) -> CellTexts]] : n \in 0..MaxRows}

\* row numbers in A1 notation
Digits == <<"1", "2", "3", "4", "5", "6", "7", "8", "9">>
RowString(n) == Digits[n]

\* values.get leaves out the trailing empty cells of a row and the trailing
\* empty rows of the range
RECURSIVE Trim(_)
Trim(row) ==
    IF row = <<>> \/ row[Len(row)] # "" THEN row
    ELSE Trim(SubSeq(row, 1, Len(row) - 1))

RECURSIVE TrimRows(_)
TrimRows(rows) ==
    IF rows = <<>> \/ rows[Len(rows)] # <<>> THEN rows
    ELSE TrimRows(SubSeq(rows, 1, Len(rows) - 1))

GridValues(grid) == TrimRows([k \in 1..Len(grid) |-> Trim(grid[k])])

\* the range `${sheetName}!${column}:${column}`
ColumnRange(sheetName, column) == sheetName \o "!" \o column \o ":" \o column

\* the cells a range of a values.get request names: the whole sheet, or one column
RangeGrid(grid, range) ==
    IF range = SheetName THEN grid
    ELSE LET c == CHOOSE i \in 1..Len(Columns) : ColumnRange(SheetName, Columns[i]) = range
         IN [k \in 1..Len(grid) |-> <<grid[k][c]>>]

\* response.data of values.get: `values` is absent when the range is empty
GetData(grid, range) ==
    LET v == GridValues(RangeGrid(grid, range))
    IN IF v = <<>> THEN [range |-> range] ELSE [range |-> range, values |-> v]

\* the row a write of rowData leaves where old was: cells past rowData are kept
Overwrite(old, rowData) ==
    [c \in 1..Len(Columns) |-> IF c <= Len(rowData) THEN rowData[c] ELSE old[c]]

EmptyRow == [c \in 1..Len(Columns) |-> ""]

\* values.update at `${sheetName}!A${r}`
UpdateGrid(grid, r, rowData) ==
    IF r <= Len(grid) THEN [grid EXCEPT ![r] = Overwrite(grid[r], rowData)]
    ELSE Append(grid, Overwrite(EmptyRow, rowData))

\* values.append with INSERT_ROWS: a new row after the last row that holds data
AppendGrid(grid, rowData) ==
    LET n == Len(GridValues(grid))
    IN SubSeq(grid, 1, n) \o <<Overwrite(EmptyRow, rowData)>> \o SubSeq(grid, n + 1, Len(grid))

\* the A1 range of the cells a write of rowData to row r touched
WrittenRange(r, rowData) ==
    SheetName \o "!A" \o RowString(r)
    \o (IF Len(rowData) > 1 THEN ":" \o Columns[Len(rowData)] \o RowString(r) ELSE "")

-----------------------------------------------------------------------------
(* Values of JavaScript in the sheets tools *)

Undefined == [t |-> "undefined"]
Str(s) == [t |-> "string", s |-> s]
Num(n) == [t |-> "number", n |-> n]

\* Number(text): <<n>>, or <<>> for NaN
ToNumber(text) == IF text = "1" THEN <<1>> ELSE IF text = "" THEN <<0>> ELSE <<>>

\* x == y for a cell x (a string, or undefined) and an argument y (a string or
\* a number): a string is converted to a number to be compared with a number
LooseEq(x, y) ==
    IF x = Undefined THEN FALSE
    ELSE IF y.t = "string" THEN x.s = y.s
    ELSE ToNumber(x.s) = <<y.n>>

\* row[i]
Cell(row, i) == IF i + 1 <= Len(row) THEN Str(row[i + 1]) ELSE Undefined

\* column.charCodeAt(0)
CharCodeAt0(column) == 64 + (CHOOSE i \in 1..Len(Columns) : Columns[i] = column)

\* the values searched for
SearchValues == {Str("a"), Str("1"), Num(1)}

\* the rows written: one cell or more, not empty as a whole
RowDatas ==
    UNION {[1..n -> CellTexts \ {""}] : n \in 1..Len(Columns)}

\* a rejected call is logged by handleSheetsOperation and rethrown
SH_Throw ==
    /\ log' = Append(log, [msg |-> "Sheets operation failed", id |-> 0])
    /\ sh_state' = "done"
    /\ sh_result' = <<[ok |-> FALSE, error |-> "backend error"]>>

-----------------------------------------------------------------------------
(* sheets_find_row *)

FR_Args ==
    [tool : {"sheets_find_row"}, searchColumn : {Columns[i] : i \in 1..Len(Columns)},
     searchValue : SearchValues]
    \cup
    [tool : {"sheets_find_row"}, searchColumn : {Columns[i] : i \in 1..Len(Columns)},
     searchValue : SearchValues, returnAllMatches : BOOLEAN]

\* params.returnAllMatches as a condition: undefined when the argument is omitted
FR_ReturnAllMatches(a) == "returnAllMatches" \in DOMAIN a /\ a.returnAllMatches

\* the callback of forEach: (row, index) => { if (row[columnIndex] == searchValue)
\* { matches.push(...); if (!returnAllMatches) return; } }
\* the return ends this invocation of the callback, which has nothing left to do
FR_Callback(matches, row, index, a) ==
    LET columnIndex == CharCodeAt0(a.searchColumn) - 65
    IN IF LooseEq(Cell(row, columnIndex), a.searchValue)
       THEN LET pushed == Append(matches, [rowNumber |-> index + 1, rowData |-> row])
            IN IF ~FR_ReturnAllMatches(a) THEN pushed ELSE pushed
       ELSE matches

\* response.data.values.forEach(callback): the callback is invoked on every row
RECURSIVE FR_ForEach(_, _, _, _)
FR_ForEach(values, index, matches, a) ==
    IF index >= Len(values) THEN matches
    ELSE FR_ForEach(values, index + 1, FR_Callback(matches, values[index + 1], index, a), a)

\* what the handler returns for response.data
FR_Response(data, a) ==
    IF "values" \notin DOMAIN data
    THEN [ok |-> TRUE, matches |-> <<>>]
    ELSE LET matches == FR_ForEach(data.values, 0, <<>>, a)
         IN [ok |-> TRUE, matches |-> matches, totalMatches |-> Len(matches)]

\* the tool is invoked: await sheets.spreadsheets.values.get({spreadsheetId, range: sheetName})
FR_Start ==
    /\ sh_state = "idle"
    /\ \E a \in FR_Args : sh_args' = a
    /\ LET req == [op |-> "values.get", range |-> SheetName]
       IN /\ calls' = Append(calls, req)
          /\ pending' = Append(pending, req)
    /\ sh_state' = "get"
    /\ UNCHANGED <<lrVars, gtVars, rpVars, crVars, bdVars, files, log, sheet, rowIndex, sh_result>>

\* the get resolves: the rows are scanned and the matches returned
FR_GetOk ==
    /\ sh_state = "get" /\ sh_args.tool = "sheets_find_row" /\ pending # <<>>
    /\ sh_result' = <<FR_Response(GetData(sheet, pending[1].range), sh_args)>>
    /\ pending' = Tail(pending)
    /\ sh_state' = "done"
    /\ UNCHANGED <<lrVars, gtVars, rpVars, crVars, bdVars, files, calls, log, sheet, sh_args, rowIndex>>

\* the get rejects
FR_GetFail ==
    /\ sh_state = "get" /\ sh_args.tool = "sheets_find_row" /\ pending # <<>>
    /\ pending' = Tail(pending)
    /\ SH_Throw
    /\ UNCHANGED <<lrVars, gtVars, rpVars, crVars, bdVars, files, calls, sheet, sh_args, rowIndex>>

-----------------------------------------------------------------------------
(* sheets_upsert_row *)

UR_Args ==
    [tool : {"sheets_upsert_row"}, keyColumn : {Columns[i] : i \in 1..Len(Columns)},
     keyValue : SearchValues, rowData : RowDatas]

\* variant of the scan: the last matching row
UR_FindIndex_Last(values, keyValue) ==
    LET hits == {i \in 0..(Len(values) - 1) : LooseEq(Cell(values[i + 1], 0), keyValue)}
    IN IF hits = {} THEN -1 ELSE CHOOSE i \in hits : \A j \in hits : j <= i

\* values.findIndex(row => row[0] == params.keyValue)
UR_FindIndex(values, keyValue) ==
    LET hits == {i \in 0..(Len(values) - 1) : LooseEq(Cell(values[i + 1], 0), keyValue)}
    IN IF hits = {} THEN -1 ELSE CHOOSE i \in hits : \A j \in hits : i <= j

\* let rowIndex = -1; if (searchResponse.data.values) rowIndex = ...findIndex(...)
UR_RowIndex(data, a) ==
    IF "values" \in DOMAIN data THEN UR_FindIndex(data.values, a.keyValue) ELSE -1

\* the tool is invoked: await sheets.spreadsheets.values.get({spreadsheetId, range: searchRange})
UR_Start ==
    /\ sh_state = "idle"
    /\ \E a \in UR_Args :
        /\ sh_args' = a
        /\ LET req == [op |-> "values.get", range |-> ColumnRange(SheetName, a.keyColumn)]
           IN /\ calls' = Append(calls, req)
              /\ pending' = Append(pending, req)
    /\ sh_state' = "get"
    /\ UNCHANGED <<lrVars, gtVars, rpVars, crVars, bdVars, files, log, sheet, rowIndex, sh_result>>

\* the get resolves and a row matches: await sheets.spreadsheets.values.update(...)
UR_Update ==
    /\ sh_state = "get" /\ sh_args.tool = "sheets_upsert_row" /\ pending # <<>>
    /\ LET idx == UR_RowIndex(GetData(sheet, pending[1].range), sh_args)
           req == [op |-> "values.update",
                   range |-> SheetName \o "!A" \o RowString(idx + 1),
                   values |-> <<sh_args.rowData>>]
       IN /\ idx # -1
          /\ rowIndex' = idx
          /\ calls' = Append(calls, req)
          /\ pending' = Append(Tail(pending), req)
    /\ sh_state' = "write"
    /\ UNCHANGED <<lrVars, gtVars, rpVars, crVars, bdVars, files, log, sheet, sh_args, sh_result>>

\* the get resolves and no row matches: await sheets.spreadsheets.values.append(...)
UR_Append ==
    /\ sh_state = "get" /\ sh_args.tool = "sheets_upsert_row" /\ pending # <<>>
    /\ LET idx == UR_RowIndex(GetData(sheet, pending[1].range), sh_args)
           req == [op |-> "values.append",
                   range |-> SheetName \o "!A:A",
                   values |-> <<sh_args.rowData>>]
       IN /\ idx = -1
          /\ rowIndex' = idx
          /\ calls' = Append(calls, req)
          /\ pending' = Append(Tail(pending), req)
    /\ sh_state' = "write"
    /\ UNCHANGED <<lrVars, gtVars, rpVars, crVars, bdVars, files, log, sheet, sh_args, sh_result>>

\* the get rejects
UR_GetFail ==
    /\ sh_state = "get" /\ sh_args.tool = "sheets_upsert_row" /\ pending # <<>>
    /\ pending' = Tail(pending)
    /\ SH_Throw
    /\ UNCHANGED <<lrVars, gtVars, rpVars, crVars, bdVars, files, calls, sheet, sh_args, rowIndex>>

\* the update resolves: return formatResponse({action: 'updated', range, updatedCells})
UR_UpdateOk ==
    /\ sh_state = "write" /\ pending # <<>> /\ pending[1].op = "values.update"
    /\ sheet' = UpdateGrid(sheet, rowIndex + 1, pending[1].values[1])
    /\ sh_result' = <<[ok |-> TRUE, action |-> "updated",
                       range |-> WrittenRange(rowIndex + 1, pending[1].values[1]),
                       updatedCells |-> Len(pending[1].values[1])]>>
    /\ pending' = Tail(pending)
    /\ sh_state' = "done"
    /\ UNCHANGED <<lrVars, gtVars, rpVars, crVars, bdVars, files, calls, log, sh_args, rowIndex>>

\* the append resolves: return formatResponse({action: 'inserted', range, updatedCells})
UR_AppendOk ==
    /\ sh_state = "write" /\ pending # <<>> /\ pending[1].op = "values.append"
    /\ sheet' = AppendGrid(sheet, pending[1].values[1])
    /\ sh_result' = <<[ok |-> TRUE, action |-> "inserted",
                       range |-> WrittenRange(Len(GridValues(sheet)) + 1, pending[1].values[1]),
                       updatedCells |-> Len(pending[1].values[1])]>>
    /\ pending' = Tail(pending)
    /\ sh_state' = "done"
    /\ UNCHANGED <<lrVars, gtVars, rpVars, crVars, bdVars, files, calls, log, sh_args, rowIndex>>

\* the update or the append rejects
UR_WriteFail ==
    /\ sh_state = "write" /\ pending # <<>>
    /\ pending' = Tail(pending)
    /\ SH_Throw
    /\ UNCHANGED <<lrVars, gtVars, rpVars, crVars, bdVars, files, calls, sheet, sh_args, rowIndex>>

SH_Init ==
    /\ files = <<>>
    /\ NoRequests
    /\ LR_Idle
    /\ GT_Idle
    /\ RP_Idle
    /\ CR_Idle
    /\ BD_Idle
    /\ sheet \in Sheets
    /\ sh_state = "idle"
    /\ sh_args = [tool |-> ""]
    /\ rowIndex = -1
    /\ sh_result = <<>>

SH_Next ==
    \/ FR_Start
    \/ FR_GetOk
    \/ FR_GetFail
    \/ UR_Start
    \/ UR_Update
    \/ UR_Append
    \/ UR_GetFail
    \/ UR_UpdateOk
    \/ UR_AppendOk
    \/ UR_WriteFail

SpecSheets == SH_Init /\ [][SH_Next]_vars

-----------------------------------------------------------------------------
(* Vocabulary of the properties of the sheets tools *)

\* the numbers of the rows whose cell in the column equals the value
MatchingRows(column, value) ==
    {r \in 1..Len(sheet) :
        LET i == CHOOSE c \in 1..Len(Columns) : Columns[c] = column
        IN sheet[r][i] # "" /\ LooseEq(Str(sheet[r][i]), value)}

Least(S) == CHOOSE r \in S : \A q \in S : r <= q

FR_Done ==
    /\ sh_state = "done" /\ sh_args.tool = "sheets_find_row"
    /\ sh_result[1].ok

-----------------------------------------------------------------------------
(* C18: sheets_find_row with returnAllMatches false or omitted returns at
   most one match, namely the first row (in sheet order) whose search-column
   cell equals searchValue; only with returnAllMatches=true can more than one
   match be returned. *)
C18_FirstMatchOnly ==
    (FR_Done /\ ~FR_ReturnAllMatches(sh_args))
    => LET rows == MatchingRows(sh_args.searchColumn, sh_args.searchValue)
           matches == sh_result[1].matches
       IN /\ Len(matches) <= 1
          /\ rows = {} => matches = <<>>
          /\ rows # {} => /\ matches # <<>>
                          /\ matches[1].rowNumber = Least(rows)

-----------------------------------------------------------------------------
(* C19 *)

IsWrite(req) == req.op \in {"values.update", "values.append"}

Writes == SelectSeq(calls, IsWrite)

UR_Called == sh_state # "idle" /\ sh_args.tool = "sheets_upsert_row"

(* C19: sheets_upsert_row issues exactly one write per call: if some row's
   key-column cell equals keyValue it updates the first such row (1-based row
   number = index of the first match + 1) and appends nothing; otherwise it
   appends exactly one row and updates nothing.  It never does both and never
   writes when the initial read fails. *)
C19_OneWrite ==
    /\ [](UR_Called =>
            /\ Len(Writes) <= 1
            /\ calls[1] = [op |-> "values.get",
                           range |-> ColumnRange(SheetName, sh_args.keyColumn)]
            /\ sh_state = "get" => Writes = <<>>
            /\ sh_state = "write" =>
                 LET rows == MatchingRows(sh_args.keyColumn, sh_args.keyValue)
                 IN calls = <<calls[1],
                              IF rows # {}
                              THEN [op |-> "values.update",
                                    range |-> SheetName \o "!A" \o RowString(Least(rows)),
                                    values |-> <<sh_args.rowData>>]
                              ELSE [op |-> "values.append",
                                    range |-> SheetName \o "!A:A",
                                    values |-> <<sh_args.rowData>>]>>
            /\ (sh_state = "done" /\ sh_result[1].ok) =>
                 /\ Len(calls) = 2 /\ Len(Writes) = 1
                 /\ sh_result[1].action
                      = (IF calls[2].op = "values.update" THEN "updated" ELSE "inserted"))
    /\ [][(UR_Called /\ sh_state = "get" /\ sh_state' = "done")
          => (calls' = calls /\ sheet' = sheet /\ ~sh_result'[1].ok)]_vars
    /\ [][(UR_Called /\ sheet' # sheet)
          => /\ sh_state = "write" /\ sh_state' = "done" /\ sh_result'[1].ok
             /\ IF calls[2].op = "values.update"
                THEN /\ Len(sheet') = Len(sheet)
                     /\ \A r \in 1..Len(sheet) :
                           r # rowIndex + 1 => sheet'[r] = sheet[r]
                ELSE /\ Len(sheet') = Len(sheet) + 1
                     /\ \A r \in 1..Len(GridValues(sheet)) : sheet'[r] = sheet[r]]_vars

\* the second and the third row held the key: the second row was updated
C19_Witness ==
    /\ UR_Called /\ sh_state = "done" /\ sh_result[1].ok
    /\ sh_result[1].action = "updated"
    /\ Len(sheet) = 3
    /\ rowIndex = 1
    /\ calls[2].range = "Sheet1!A2"
    /\ 3 \in MatchingRows(sh_args.keyColumn, sh_args.keyValue)
    /\ sheet[2] # sheet[3]

-----------------------------------------------------------------------------
(* One call of any of the three Drive tools *)

\* the backend is one of those the traversals are run against (entry 1 is A)
OfTraversals == files # <<>> /\ files[1].name = EntryNames[1]

NoOtherCall(states) == \A s \in states : s = "idle"

DR_Init == LR_Init \/ RP_Init

\* a call of one tool runs from its start to its end with no other tool called
DR_Next ==
    \/ OfTraversals /\ NoOtherCall({gt_state, rp_state}) /\ LR_Next
    \/ OfTraversals /\ NoOtherCall({lr_state, rp_state}) /\ GT_Next
    \/ ~OfTraversals /\ NoOtherCall({lr_state, gt_state}) /\ rp_state # "done" /\ RP_Next

SpecDrive == DR_Init /\ [][DR_Next]_vars

-----------------------------------------------------------------------------
(* C21: within one resolvePath, buildTree or listRecursive call, backend
   calls are strictly sequential: at every moment at most one backend request
   of that call is outstanding, a request is issued only when every earlier
   one has been answered, and sibling subtrees are never fetched in parallel:
   the listing of a container is requested right after the container is
   reached, when the subtrees of its previous siblings have been processed
   in full. *)
C21_Sequential ==
    /\ [](Len(pending) <= 1)
    /\ [][Len(calls') > Len(calls)
          => /\ Len(calls') = Len(calls) + 1
             /\ pending' = <<calls'[Len(calls')]>>]_vars
    /\ [](\A j \in 1..Len(lr_stack) :
            /\ j < Len(lr_stack) => lr_stack[j].pc = "loop"
            /\ lr_stack[j].pc = "await" => pending # <<>>)
    /\ [][(lr_state = "running" /\ Len(calls') > Len(calls) /\ Len(lr_stack) > 1)
          => /\ allItems # <<>>
             /\ allItems[Len(allItems)].id = Top(lr_stack).parentId
             /\ allItems[Len(allItems)].depth = Top(lr_stack).depth - 1]_vars
    /\ [](\A j \in 1..Len(gt_stack) :
            /\ j < Len(gt_stack) =>
                 /\ gt_stack[j].pc = "call"
                 /\ Len(gt_stack[j].items) = gt_stack[j].i - 1
                 /\ gt_stack[j].resp[gt_stack[j].i].id = gt_stack[j + 1].parentId
            /\ gt_stack[j].pc = "await" => pending # <<>>)

\* the listing of a child of the start folder is in flight, alone, after the
\* subtree of an earlier sibling container was listed and emitted
C21_Witness ==
    /\ lr_state = "running" /\ Len(pending) = 1
    /\ Len(calls) = 3
    /\ Len(lr_stack) = 2 /\ Top(lr_stack).pc = "await"
    /\ \E k \in 1..(Len(allItems) - 1) :
          /\ allItems[k].depth = 0 /\ allItems[k].mimeType = FOLDER
          /\ allItems[k].id # Top(lr_stack).parentId
          /\ Kids(allItems, k) # {}

-----------------------------------------------------------------------------
(* get_folder_id_for_path, invoked twice at the same time: the event loop
   runs the continuations of the two invocations in any order, and the backend
   answers each request when it gets to it *)

Callers == {1, 2}

\* the paths the concurrent invocations are given: those without empty segments
CR_Paths == {p \in Paths : PlainPath(p) = p}

\* an invocation that has not started; req is the request it awaits, if any,
\* and after tells whether it started when the other invocation had ended
CR_Fresh ==
    [state |-> "idle", args |-> RP_Defaults, folders |-> <<>>, i |-> 1,
     currentParentId |-> root, req |-> <<>>, ret |-> <<>>, after |-> FALSE]

OtherCaller(c) == CHOOSE d \in Callers : d # c

\* the handler is invoked: let currentParentId = 'root'; the later invocation is
\* given the path of the earlier one
CR_Start(c) ==
    /\ inv[c].state = "idle"
    /\ \E p \in CR_Paths : \E create \in BOOLEAN :
        /\ inv[OtherCaller(c)].state # "idle" => p = inv[OtherCaller(c)].args.path
        /\ inv' = [inv EXCEPT ![c] =
                     [@ EXCEPT !.state = "loop",
                               !.args = [path |-> p, createIfNotExists |-> create],
                               !.folders = RP_Folders(p),
                               !.after = inv[OtherCaller(c)].state = "done"]]
    /\ UNCHANGED <<lrVars, gtVars, rpVars, shVars, bdVars, backendVars, log>>

\* await drive.files.list({q, fields, pageSize: 1})
CR_List(c) ==
    /\ inv[c].state = "loop"
    /\ inv[c].i <= Len(inv[c].folders)
    /\ LET req == ListRequest(RP_Query(inv[c].folders[inv[c].i], inv[c].currentParentId),
                              RP_PAGE_SIZE, NoOrder)
       IN /\ calls' = Append(calls, req)
          /\ inv' = [inv EXCEPT ![c] = [@ EXCEPT !.state = "list", !.req = <<req>>]]
    /\ UNCHANGED <<lrVars, gtVars, rpVars, shVars, bdVars, files, pending, log>>

\* the list is answered with a match: currentParentId = response.data.files[0].id
CR_Found(c) ==
    /\ inv[c].state = "list"
    /\ LET resp == ListResponse(files, inv[c].req[1])
       IN /\ Len(resp) > 0
          /\ inv' = [inv EXCEPT ![c] =
                       [@ EXCEPT !.state = "loop", !.req = <<>>, !.i = @ + 1,
                                 !.currentParentId = resp[1].id]]
    /\ UNCHANGED <<lrVars, gtVars, rpVars, shVars, bdVars, backendVars, log>>

\* the list is answered without a match: await drive.files.create({requestBody})
CR_Create(c) ==
    /\ inv[c].state = "list"
    /\ Len(ListResponse(files, inv[c].req[1])) = 0
    /\ inv[c].args.createIfNotExists
    /\ LET req == [op |-> "create",
                   requestBody |-> RP_NewFolder(inv[c].folders[inv[c].i],
                                                inv[c].currentParentId)]
       IN /\ calls' = Append(calls, req)
          /\ inv' = [inv EXCEPT ![c] = [@ EXCEPT !.state = "create", !.req = <<req>>]]
    /\ UNCHANGED <<lrVars, gtVars, rpVars, shVars, bdVars, files, pending, log>>

\* an error leaves the handler: handleDriveOperation logs it and rethrows
CR_Throw(c, message) ==
    /\ log' = Append(log, [msg |-> "Drive operation failed", id |-> inv[c].currentParentId])
    /\ inv' = [inv EXCEPT ![c] =
                 [@ EXCEPT !.state = "done", !.req = <<>>,
                           !.ret = <<[ok |-> FALSE, error |-> message]>>]]

\* the list is answered without a match: throw new Error(`Folder not found: ...`)
CR_NotFound(c) ==
    /\ inv[c].state = "list"
    /\ Len(ListResponse(files, inv[c].req[1])) = 0
    /\ ~inv[c].args.createIfNotExists
    /\ CR_Throw(c, RP_NotFoundMessage(inv[c].folders[inv[c].i], inv[c].args.path))
    /\ UNCHANGED <<lrVars, gtVars, rpVars, shVars, bdVars, backendVars>>

\* the list or the create rejects
CR_Fail(c) ==
    /\ inv[c].state \in {"list", "create"}
    /\ CR_Throw(c, "backend error")
    /\ UNCHANGED <<lrVars, gtVars, rpVars, shVars, bdVars, backendVars>>

\* the create is answered, and the invocation stays under the old parent
CR_Created_KeepParent(c) ==
    /\ inv[c].state = "create"
    /\ files' = Append(files, inv[c].req[1].requestBody)
    /\ inv' = [inv EXCEPT ![c] = [@ EXCEPT !.state = "loop", !.req = <<>>, !.i = @ + 1]]
    /\ UNCHANGED <<lrVars, gtVars, rpVars, shVars, bdVars, calls, pending, log>>

\* the create is answered: currentParentId = createResponse.data.id
CR_Created(c) ==
    /\ inv[c].state = "create"
    /\ files' = Append(files, inv[c].req[1].requestBody)
    /\ inv' = [inv EXCEPT ![c] =
                 [@ EXCEPT !.state = "loop", !.req = <<>>, !.i = @ + 1,
                           !.currentParentId = Len(files) + 1]]
    /\ UNCHANGED <<lrVars, gtVars, rpVars, shVars, bdVars, calls, pending, log>>

\* return formatResponse({path, folderId: currentParentId})
CR_Return(c) ==
    /\ inv[c].state = "loop"
    /\ inv[c].i > Len(inv[c].folders)
    /\ inv' = [inv EXCEPT ![c] =
                 [@ EXCEPT !.state = "done",
                           !.ret = <<[ok |-> TRUE, path |-> inv[c].args.path,
                                      folderId |-> inv[c].currentParentId]>>]]
    /\ UNCHANGED <<lrVars, gtVars, rpVars, shVars, bdVars, backendVars, log>>

CR_Init ==
    /\ files \in ResolverBackends
    /\ NoRequests
    /\ LR_Idle
    /\ GT_Idle
    /\ RP_Idle
    /\ SH_Idle
    /\ BD_Idle
    /\ inv = [c \in Callers |-> CR_Fresh]

CR_Next ==
    \E c \in Callers :
        \/ CR_Start(c)
        \/ CR_List(c)
        \/ CR_Found(c)
        \/ CR_Create(c)
        \/ CR_NotFound(c)
        \/ CR_Fail(c)
        \/ CR_Created(c)
        \/ CR_Return(c)

SpecRace == CR_Init /\ [][CR_Next]_vars

-----------------------------------------------------------------------------
\* the invocation returned a folder id, having been allowed to create
CR_Made(c) ==
    /\ inv[c].state = "done"
    /\ inv[c].ret[1].ok
    /\ inv[c].args.createIfNotExists

\* two create requests of the log ask for the same name under the same parent
TwinCreates ==
    \E j, k \in 1..Len(calls) :
        /\ j < k
        /\ calls[j].op = "create" /\ calls[k].op = "create"
        /\ calls[j].requestBody = calls[k].requestBody

(* C24: the find-then-create step of resolvePath is not atomic with respect
   to the backend.  Each of two invocations on the same path with
   createIfMissing=true returns a container whose ancestors carry the path's
   segment names; when one starts after the other has ended they return the
   same id, and they return different ids only when they overlapped and both
   created a container of the same name under the same parent, which is the
   interleaving in which both found the segment missing. *)
C24_RaceDuplicates ==
    (CR_Made(1) /\ CR_Made(2))
    => LET id1 == inv[1].ret[1].folderId
           id2 == inv[2].ret[1].folderId
       IN /\ \A c \in Callers :
                AncestorNames(files, inv[c].ret[1].folderId) = inv[c].folders
          /\ (inv[1].after \/ inv[2].after) => id1 = id2
          /\ id1 # id2 => /\ TwinCreates
                           /\ \E k \in 1..Len(inv[1].folders) : \E q \in Ids(files) \cup {root} :
                                 Cardinality(FoldersNamed(inv[1].folders[k], q)) >= 2

\* both invocations resolved "a", both found it missing and both created it:
\* two folders named a lie under the root and the callers hold different ids
C24_Witness ==
    /\ CR_Made(1) /\ CR_Made(2)
    /\ inv[1].args.path = <<"a">> /\ inv[2].args.path = <<"a">>
    /\ inv[1].ret[1].folderId # inv[2].ret[1].folderId
    /\ TwinCreates
    /\ Cardinality(FoldersNamed("a", root)) = 2
    /\ files[inv[1].ret[1].folderId].parents = {root}
    /\ files[inv[2].ret[1].folderId].parents = {root}

-----------------------------------------------------------------------------
\* the index in calls before the first request of the call in progress
CallStart == IF responses = <<>> THEN 0 ELSE Last(responses).ncalls

\* the call in progress has had a create answered or issued
CreatesInCall == {k \in (CallStart + 1)..Len(calls) : calls[k].op = "create"}

(* C25: resolvePath with createIfMissing=false never issues a create request:
   whether it succeeds or fails, the set of backend entries is the same after
   the call as before it. *)
C25_ReadOnlyWithoutCreate ==
    /\ [][(rp_state \notin {"idle", "done"} /\ ~rp_args.createIfNotExists)
          => /\ files' = files
             /\ calls' # calls => (calls' = Append(calls, Last(calls')) /\ IsList(Last(calls')))]_vars
    /\ [](\A i \in 1..Len(responses) :
            ~responses[i].args.createIfNotExists
            => \A k \in 1..Len(RequestsOf(i)) : IsList(RequestsOf(i)[k]))

\* two calls without creation, each with requests: the first failed, the
\* second returned a folder
C25_Witness ==
    /\ Len(responses) = 2
    /\ ~responses[1].args.createIfNotExists /\ ~responses[1].ret.ok
    /\ ~responses[2].args.createIfNotExists /\ responses[2].ret.ok
    /\ responses[2].ret.folderId # root
    /\ responses[1].ncalls >= 1
    /\ Len(calls) > responses[1].ncalls

-----------------------------------------------------------------------------
\* the folders the backend holds for a create request
Holding(req) == {id \in Ids(files) : files[id] = req.requestBody}

(* C26: resolvePath with createIfMissing=true has no rollback: if a backend
   list or create call fails after k segments have already been created, the
   error propagates to the caller and the k containers created earlier in
   the same call remain in the backend. *)
C26_NoRollback ==
    /\ [][(rp_state \in {"list", "create"} /\ rp_state' = "done")
          => /\ files' = files
             /\ ~Last(responses').ret.ok
             /\ log' = Append(log, Last(log'))]_vars
    /\ [][\A id \in Ids(files) : id \in Ids(files') /\ files'[id] = files[id]]_vars
    /\ [](\A i \in 1..Len(responses) :
            (responses[i].args.createIfNotExists /\ ~responses[i].ret.ok)
            => LET R == RequestsOf(i)
               IN \A k \in 1..(Len(R) - 1) : R[k].op = "create" => Holding(R[k]) # {})

\* "a/b" was resolved with creation: a was created, then the backend failed
\* on b, and the folder a is in the backend
C26_Witness ==
    /\ Len(responses) = 1
    /\ responses[1].args = [path |-> <<"a", "/", "b">>, createIfNotExists |-> TRUE]
    /\ responses[1].ret = [ok |-> FALSE, error |-> "backend error"]
    /\ Len(calls) >= 3
    /\ calls[2].op = "create"
    /\ FoldersNamed("a", root) = {Len(files)}

-----------------------------------------------------------------------------
(* C27: in resolvePath with createIfMissing=true and no concurrent backend
   modification, once one segment has been created every later segment of the
   path is created too (a lookup under a freshly created container never
   finds a match), so the segments split into a prefix of found containers
   followed by a suffix of created ones, with at most one create per
   segment. *)
C27_FoundThenCreated ==
    /\ [][(rp_state = "list" /\ CreatesInCall # {}) => rp_state' # "loop"]_vars
    /\ [](\A i \in 1..Len(responses) :
            LET R == RequestsOf(i)
                segs == RP_Folders(responses[i].args.path)
            IN /\ Len(ListsOf(i)) <= Len(segs)
               /\ \A k \in 1..Len(ListsOf(i)) :
                     ListsOf(i)[k].q[1] = NameEq(segs[k])
               /\ \A k \in 1..Len(R) :
                     R[k].op = "create"
                     => /\ k > 1 /\ IsList(R[k - 1])
                        /\ R[k - 1].q[1] = NameEq(R[k].requestBody.name)
                        /\ \A j \in (k + 1)..Len(R) :
                              IsList(R[j])
                              => \/ j < Len(R) /\ R[j + 1].op = "create"
                                 \/ j = Len(R) /\ ~responses[i].ret.ok)

\* "a/b" was resolved with creation and both segments were created
C27_Witness ==
    /\ Len(responses) = 1
    /\ responses[1].args = [path |-> <<"a", "/", "b">>, createIfNotExists |-> TRUE]
    /\ responses[1].ret.ok
    /\ Len(calls) = 4
    /\ calls[2].op = "create" /\ calls[4].op = "create"
    /\ files[responses[1].ret.folderId].parents = {Len(files) - 1}

-----------------------------------------------------------------------------
(* batch_download *)

DOCUMENT    == "application/vnd.google-apps.document"
SPREADSHEET == "application/vnd.google-apps.spreadsheet"
CSV         == "text/csv"
PDF         == "application/pdf"

\* the entries the downloads are run against: a Google document, a Google
\* spreadsheet and a regular file; Google Workspace files carry no size
BD_Files ==
    <<[name |-> "notes", mimeType |-> DOCUMENT, data |-> "notes text"],
      [name |-> "table", mimeType |-> SPREADSHEET, data |-> "table text"],
      [name |-> "x.txt", mimeType |-> TEXT, data |-> "x text", size |-> "6"]>>

\* an id no entry has
BD_Missing == Len(BD_Files) + 1

RECURSIVE SeqsUpTo(_, _)
SeqsUpTo(S, n) ==
    IF n = 0 THEN {<<>>}
    ELSE LET shorter == SeqsUpTo(S, n - 1)
         IN shorter \cup {Append(s, x) : s \in shorter, x \in S}

\* exportFormat is optional: absent it is falsy
BD_Args ==
    [fileIds : SeqsUpTo(1..BD_Missing, MaxFileIds),
     format : {"text", "base64"},
     exportFormat : {"", PDF}]

\* mimeType?.startsWith('application/vnd.google-apps.')
IsWorkspace(mimeType) == mimeType \in {DOCUMENT, SPREADSHEET, FOLDER}

\* let exportMimeType = exportFormat || 'text/plain'; if (!exportFormat) {...}
BD_ExportMimeType(mimeType, exportFormat) ==
    IF exportFormat # "" THEN exportFormat
    ELSE IF mimeType = DOCUMENT THEN TEXT
    ELSE IF mimeType = SPREADSHEET THEN CSV
    ELSE TEXT

\* { responseType: format === 'base64' ? 'arraybuffer' : 'text' }
BD_ResponseType(format) == IF format = "base64" THEN "arraybuffer" ELSE "text"

\* the body the backend answers: the entry's data rendered as asked for, as an
\* ArrayBuffer or as a string
BD_Data(file, as, responseType) ==
    [type |-> IF responseType = "arraybuffer" THEN "ArrayBuffer" ELSE "string",
     rendered |-> as, of |-> file.data]

\* if (format === 'base64' && content instanceof ArrayBuffer)
\*     content = Buffer.from(content).toString('base64')
BD_Content(content, format) ==
    IF format = "base64" /\ content.type = "ArrayBuffer"
    THEN [type |-> "string", rendered |-> content.rendered, of |-> content.of,
          encoding |-> "base64"]
    ELSE content

\* results.push({fileId, name, content, mimeType, size, success: true}); an
\* undefined size is left out of the response
BD_Result(fileId, meta, content, downloadMimeType) ==
    LET r == [fileId |-> fileId, name |-> meta.name, content |-> content,
              mimeType |-> downloadMimeType, success |-> TRUE]
    IN IF "size" \in DOMAIN meta
       THEN [x \in DOMAIN r \cup {"size"} |-> IF x = "size" THEN meta.size ELSE r[x]]
       ELSE r

\* errors.push({fileId, error: error.message, success: false})
BD_Error(fileId, message) == [fileId |-> fileId, error |-> message, success |-> FALSE]

\* the tool is invoked: const results = []; const errors = []
BD_Start ==
    /\ bd_state = "idle"
    /\ \E a \in BD_Args : bd_args' = a
    /\ bd_state' = "loop"
    /\ bd_i' = 1
    /\ results' = <<>>
    /\ errors' = <<>>
    /\ UNCHANGED <<lrVars, gtVars, rpVars, shVars, crVars, backendVars, log, metaResponse,
                   bd_result>>

\* for (const fileId of fileIds): await drive.files.get({fileId, fields})
BD_GetMeta ==
    /\ bd_state = "loop"
    /\ bd_i <= Len(bd_args.fileIds)
    /\ LET req == [op |-> "get", fileId |-> bd_args.fileIds[bd_i],
                   fields |-> "name, mimeType, size"]
       IN /\ calls' = Append(calls, req)
          /\ pending' = Append(pending, req)
    /\ bd_state' = "meta"
    /\ UNCHANGED <<lrVars, gtVars, rpVars, shVars, crVars, files, log, bd_args, bd_i,
                   metaResponse, results, errors, bd_result>>

\* the metadata of a Google Workspace file arrive: await drive.files.export(...)
BD_Export ==
    /\ bd_state = "meta" /\ pending # <<>>
    /\ pending[1].fileId \in Ids(files)
    /\ LET meta == files[pending[1].fileId]
           req == [op |-> "export", fileId |-> pending[1].fileId,
                   mimeType |-> BD_ExportMimeType(meta.mimeType, bd_args.exportFormat),
                   responseType |-> BD_ResponseType(bd_args.format)]
       IN /\ IsWorkspace(meta.mimeType)
          /\ metaResponse' = <<meta>>
          /\ calls' = Append(calls, req)
          /\ pending' = Append(Tail(pending), req)
    /\ bd_state' = "content"
    /\ UNCHANGED <<lrVars, gtVars, rpVars, shVars, crVars, files, log, bd_args, bd_i,
                   results, errors, bd_result>>

\* the metadata of a regular file arrive: await drive.files.get({fileId, alt: 'media'})
BD_Media ==
    /\ bd_state = "meta" /\ pending # <<>>
    /\ pending[1].fileId \in Ids(files)
    /\ LET meta == files[pending[1].fileId]
           req == [op |-> "get", fileId |-> pending[1].fileId, alt |-> "media",
                   responseType |-> BD_ResponseType(bd_args.format)]
       IN /\ ~IsWorkspace(meta.mimeType)
          /\ metaResponse' = <<meta>>
          /\ calls' = Append(calls, req)
          /\ pending' = Append(Tail(pending), req)
    /\ bd_state' = "content"
    /\ UNCHANGED <<lrVars, gtVars, rpVars, shVars, crVars, files, log, bd_args, bd_i,
                   results, errors, bd_result>>

\* the export or the media download is answered: results.push({...})
BD_ContentOk ==
    /\ bd_state = "content" /\ pending # <<>>
    /\ LET req == pending[1]
           meta == metaResponse[1]
           downloadMimeType == IF req.op = "export" THEN req.mimeType ELSE meta.mimeType
           data == BD_Data(files[req.fileId], downloadMimeType, req.responseType)
       IN results' = Append(results,
                        BD_Result(req.fileId, meta, BD_Content(data, bd_args.format),
                                  downloadMimeType))
    /\ pending' = Tail(pending)
    /\ bd_i' = bd_i + 1
    /\ bd_state' = "loop"
    /\ UNCHANGED <<lrVars, gtVars, rpVars, shVars, crVars, files, calls, log, bd_args,
                   metaResponse, errors, bd_result>>

\* variant of the catch: the error leaves the loop and ends the call
BD_Fail_Abort ==
    /\ bd_state \in {"meta", "content"} /\ pending # <<>>
    /\ pending' = Tail(pending)
    /\ log' = Append(log, [msg |-> "Drive operation failed", id |-> pending[1].fileId])
    /\ bd_result' = <<[ok |-> FALSE, error |-> "backend error"]>>
    /\ bd_state' = "done"
    /\ UNCHANGED <<lrVars, gtVars, rpVars, shVars, crVars, files, calls, bd_args, bd_i,
                   metaResponse, results, errors>>

\* a request of the iteration rejects (the file does not exist, or the backend
\* fails): catch (error) { errors.push({...}) }, and the loop goes on
BD_Fail ==
    /\ bd_state \in {"meta", "content"} /\ pending # <<>>
    /\ pending' = Tail(pending)
    /\ errors' = Append(errors,
                    BD_Error(pending[1].fileId,
                             IF pending[1].fileId \in Ids(files)
                             THEN "backend error" ELSE "File not found"))
    /\ bd_i' = bd_i + 1
    /\ bd_state' = "loop"
    /\ UNCHANGED <<lrVars, gtVars, rpVars, shVars, crVars, files, calls, log, bd_args,
                   metaResponse, results, bd_result>>

\* return formatResponse({downloaded, failed, totalRequested, successCount, errorCount})
BD_Return ==
    /\ bd_state = "loop"
    /\ bd_i > Len(bd_args.fileIds)
    /\ bd_result' = <<[ok |-> TRUE, downloaded |-> results, failed |-> errors,
                       totalRequested |-> Len(bd_args.fileIds),
                       successCount |-> Len(results), errorCount |-> Len(errors)]>>
    /\ bd_state' = "done"
    /\ UNCHANGED <<lrVars, gtVars, rpVars, shVars, crVars, backendVars, log, bd_args, bd_i,
                   metaResponse, results, errors>>

BD_Init ==
    /\ files = BD_Files
    /\ NoRequests
    /\ LR_Idle
    /\ GT_Idle
    /\ RP_Idle
    /\ CR_Idle
    /\ SH_Idle
    /\ BD_Idle

BD_Next ==
    \/ BD_Start
    \/ BD_GetMeta
    \/ BD_Export
    \/ BD_Media
    \/ BD_ContentOk
    \/ BD_Fail
    \/ BD_Return

SpecBatch == BD_Init /\ [][BD_Next]_vars

-----------------------------------------------------------------------------
\* ids is an interleaving of the file ids of rs and those of es, each in order
RECURSIVE IsShuffle(_, _, _)
IsShuffle(ids, rs, es) ==
    IF ids = <<>> THEN rs = <<>> /\ es = <<>>
    ELSE \/ rs # <<>> /\ Head(rs).fileId = Head(ids) /\ IsShuffle(Tail(ids), Tail(rs), es)
         \/ es # <<>> /\ Head(es).fileId = Head(ids) /\ IsShuffle(Tail(ids), rs, Tail(es))

\* the metadata requests of the log, in the order of issue
MetaRequests == SelectSeq(calls, LAMBDA r : r.op = "get" /\ "fields" \in DOMAIN r)

(* C30: batch_download processes the file ids in the given order and never
   aborts on a per-file failure: after the call every requested id occurrence
   is in exactly one of the lists downloaded and failed, so successCount +
   errorCount = totalRequested, and a failure for one id does not prevent the
   download of the ids after it. *)
C30_EveryIdAccounted ==
    /\ [](bd_state # "idle" =>
            /\ Len(results) + Len(errors) = bd_i - 1
            /\ IsShuffle(SubSeq(bd_args.fileIds, 1, bd_i - 1), results, errors)
            /\ \A k \in 1..Len(MetaRequests) : MetaRequests[k].fileId = bd_args.fileIds[k]
            /\ \A k \in 1..Len(results) : results[k].success
            /\ \A k \in 1..Len(errors) : ~errors[k].success)
    /\ [][errors' # errors =>
            /\ errors' = Append(errors, Last(errors'))
            /\ results' = results
            /\ bd_state' = "loop" /\ bd_i' = bd_i + 1 /\ bd_result' = <<>>]_vars
    /\ [](bd_state = "done" =>
            LET r == bd_result[1]
            IN /\ r.ok
               /\ r.downloaded = results /\ r.failed = errors
               /\ IsShuffle(bd_args.fileIds, r.downloaded, r.failed)
               /\ r.totalRequested = Len(bd_args.fileIds)
               /\ r.successCount + r.errorCount = r.totalRequested
               /\ Len(MetaRequests) = Len(bd_args.fileIds))

\* three ids were requested, the first two the same: its first download
\* failed, its second and the download of the third id succeeded
C30_Witness ==
    /\ bd_state = "done"
    /\ Len(bd_args.fileIds) = 3
    /\ bd_args.fileIds[1] = bd_args.fileIds[2]
    /\ bd_args.fileIds[3] # bd_args.fileIds[1]
    /\ Len(bd_result[1].failed) = 1 /\ bd_result[1].failed[1].fileId = bd_args.fileIds[1]
    /\ Len(bd_result[1].downloaded) = 2
    /\ bd_result[1].downloaded[2].fileId = bd_args.fileIds[3]

====
